---- MODULE Spec2Model ----
(***************************************************************************)
(* Station matching and temporal join of the railway / weather pipeline.   *)
(*                                                                         *)
(*   match_train_with_ems      src/cross_data/cross_functions.py  6..69    *)
(*   merge_train_weather_data  src/cross_data/cross_functions.py  71..199  *)
(*                                                                         *)
(* Conventions.  Python's None is the string "None".  Coordinates are      *)
(* decimal literals kept as strings (they are only copied and handed to    *)
(* haversine()).  Distances are integers, in metres (distance_km * 1000).  *)
(* float("inf") is Inf, larger than every distance on Earth.  Times are    *)
(* minutes since midnight of the day the scenario plays on.  Python        *)
(* indices are 0-based; a sequence s is read at s[i + 1].                  *)
(***************************************************************************)
EXTENDS Integers, Sequences, FiniteSets, TLC

VARIABLES
    train_stations,      \* caller's railway registry (station_metadata)
    ems_stations,        \* caller's weather-station registry
    m_pc,                \* position in match_train_with_ems
    m_local,             \* the function's local train_stations (after drop/rename)
    m_applied,           \* rows produced so far by train_stations.apply(...)
    matched_stations_df, \* the returned match table
    m_calls_left,        \* calls of match_train_with_ems the caller still makes
    m_returns,           \* the table each finished call returned (history)
    fmi_data,            \* caller's weather observation table
    trains_data,         \* caller's train runs (mutated in place by the join)
    j_pc,                \* position in merge_train_weather_data
    j_run,               \* 0-based index of the run being processed
    j_stop,              \* 0-based index of the stop being processed
    ems_weather_dict,    \* station -> sorted frame, built once per call
    closest_rows,        \* closest_row picked for each joined stop (history)
    index_builds,        \* station -> executions of lines 122-129 in this call
    searched,            \* station -> the array line 136 searched last (history)
    j_calls_left,        \* calls of merge_train_weather_data still to be made
    j_returns,           \* trains_data as each finished call returned it (history)
    obs_ref,             \* stop -> the dict object its weather_observations is
    next_obj,            \* number of dict objects find_closest_weather created
    poked,               \* stop whose mapping the caller wrote to, "None" if none
    lookup_touched,      \* that write went through to a row of the lookup frames
    trains_data_in,      \* the train runs as they were before the first call
    fmi_data_in,         \* the observation table as it was before the first call
    train_stations_in,   \* the railway registry as it was before the first call
    ems_stations_in,     \* the weather-station registry as it was before it
    log,                 \* what the functions printed
    exc,                 \* exception that left a function, "None" if none
    chunk_hours,         \* fetch_fmi_data: argument
    max_retries,         \* fetch_fmi_data: argument
    f_pc,                \* position in fetch_fmi_data
    current_time,        \* start of the chunk, hours since 00:00 of the date
    chunk_end,           \* end of the chunk
    attempt,             \* number of the attempt the retry loop is at
    broke,               \* the retry loop was left by break
    all_data,            \* frames of the chunks that returned data
    station_metadata,    \* metadata dict, EmptyMeta until captured
    f_windows,           \* the windows queried so far (history)
    f_queries,           \* queries made for the current chunk, counted up to
                         \* max_retries + 1 (history)
    f_settled,           \* a query of the current chunk returned data or
                         \* nothing (history)
    f_late_query,        \* a query was made for a chunk after one that returned
                         \* data or nothing (history)
    f_ok_chunks,         \* starts of the chunks whose query returned data (history)
    f_skipped,           \* chunks that had returned data when a chunk was last
                         \* given up after max_retries, NotSkipped if none was
                         \* (history)
    f_result,            \* the two tables fetch_fmi_data returns
    date,                \* fetch_fmi_data: argument, days since 2024-01-01
    service,             \* how the FMI service answers the queries
    script,              \* the script that runs: main.py, page 8 or page 9
    start_date,          \* script: first day of the range
    end_date,            \* script: last day of the range
    railway_metadata,    \* script: station_metadata, what load_railway_metadata
                         \* returned
    trains_available,    \* the railway API has trains for the range
    p_pc,                \* position in the script
    current_date,        \* script: day the weather loop is at
    current_month,       \* script: month number of the batch being collected
    monthly_fmi_data,    \* script: tables of the days of the batch
    all_fmi_data,        \* main.py: tables of all days
    all_ems_metadata,    \* script: list holding the weather-station registry
    ems_metadata_combined, \* script: the registry handed to the matcher
    files,               \* output folder: file name -> table
    p_saves,             \* every weather table written, in order (history)
    p_daily,             \* the tables fetch_fmi_data returned with rows, in
                         \* order (history)
    p_fetched,           \* what was requested from the APIs after the station
                         \* metadata (history)
    p_log,               \* messages the script showed
    p_exc,               \* exception that ended the script, "None" if none
    clean_in,            \* clean_fmi_data: the table handed over
    clean_out            \* results of clean_fmi_data applied once, twice (history)

vars == <<train_stations, ems_stations, m_pc, m_local, m_applied,
          matched_stations_df, m_calls_left, m_returns, fmi_data, trains_data,
          j_pc, j_run, j_stop, ems_weather_dict, closest_rows, index_builds,
          searched, j_calls_left, j_returns, obs_ref, next_obj, poked,
          lookup_touched, trains_data_in, fmi_data_in, train_stations_in,
          ems_stations_in, log, exc, chunk_hours, max_retries, f_pc,
          current_time, chunk_end, attempt, broke, all_data, station_metadata,
          f_windows, f_queries, f_settled, f_late_query, f_ok_chunks,
          f_skipped, f_result, date, service, script, start_date, end_date,
          railway_metadata, trains_available, p_pc, current_date,
          current_month, monthly_fmi_data, all_fmi_data, all_ems_metadata,
          ems_metadata_combined, files, p_saves, p_daily, p_fetched, p_log,
          p_exc,
          clean_in, clean_out>>

m_vars == <<m_pc, m_local, m_applied, matched_stations_df, m_calls_left,
            m_returns>>
j_vars == <<fmi_data, trains_data, j_pc, j_run, j_stop, ems_weather_dict,
            closest_rows, index_builds, searched, j_calls_left, j_returns,
            obs_ref, next_obj, poked, lookup_touched>>
\* the inputs as the caller handed them over; no step writes them
in_vars == <<trains_data_in, fmi_data_in, train_stations_in, ems_stations_in>>

f_vars == <<chunk_hours, max_retries, f_pc, current_time, chunk_end, attempt,
            broke, all_data, station_metadata, f_windows, f_queries,
            f_settled, f_late_query, f_ok_chunks, f_skipped, f_result, date,
            service>>
\* the scripts that call fetch_fmi_data: main.py, page 8, page 9
p_vars == <<script, start_date, end_date, railway_metadata, trains_available,
            p_pc, current_date, current_month, monthly_fmi_data, all_fmi_data,
            all_ems_metadata, ems_metadata_combined, files, p_saves, p_daily,
            p_fetched, p_log, p_exc>>
c_vars == <<clean_in, clean_out>>
\* everything match_train_with_ems and merge_train_weather_data work on
core_vars == <<train_stations, ems_stations, log, exc, m_vars, j_vars, in_vars>>
\* everything the other functions of the pipeline work on
ext_vars == <<f_vars, p_vars, c_vars>>
\* everything around fetch_fmi_data
outer_vars == <<core_vars, p_vars, c_vars>>

NoneVal == "None"

(***************************************************************************)
(* Bounds of the explored inputs.                                          *)
(***************************************************************************)
MaxTrainStations == 2
MaxEms == 2
MaxObs == 3

\* float("inf"), in metres
Inf == 1000000000

SeqsUpTo(S, n) == UNION {[1..k -> S] : k \in 0..n}

(***************************************************************************)
(* Geography.  Three positions: A (60.0, 24.0), B (61.0, 25.0) and         *)
(* R (60.1, 24.1).                                                         *)
(***************************************************************************)
PosA == [latitude |-> "60.0", longitude |-> "24.0"]
PosB == [latitude |-> "61.0", longitude |-> "25.0"]
PosR == [latitude |-> "60.1", longitude |-> "24.1"]
Positions == {PosA, PosB, PosR}

\* haversine(p, q, unit=KILOMETERS) of the haversine package
\* (2 * 6371.0088 * asin(sqrt(sin^2(dlat/2) + cos cos sin^2(dlon/2)))),
\* tabulated on Positions and rounded to the metre.
haversine(p, q) ==
    IF p = q THEN 0
    ELSE IF {p, q} = {PosA, PosR} THEN 12428
    ELSE IF {p, q} = {PosB, PosR} THEN 111515
    ELSE 123942

(***************************************************************************)
(* match_train_with_ems                                                    *)
(***************************************************************************)
\* mutant of DropRename: the station name lands in the code column
DropRenameByName(row) ==
    [train_station_short_code |-> row.stationName,
     train_lat |-> row.latitude,
     train_long |-> row.longitude]

\* lines 19-30: drop four columns, rename the remaining ones (a new frame)
DropRename(row) ==
    [train_station_short_code |-> row.stationShortCode,
     train_lat |-> row.latitude,
     train_long |-> row.longitude]

\* mutant of ScanStep: the comparison with min_distance is lost
ScanStepKeepLast(acc, ems, train_lat, train_lon) ==
    [closest_ems |-> ems.station_name,
     closest_lat |-> ems.latitude,
     closest_lon |-> ems.longitude,
     min_distance |-> haversine([latitude |-> train_lat, longitude |-> train_lon],
                                [latitude |-> ems.latitude,
                                 longitude |-> ems.longitude])]

\* mutant of ScanStep: the position is only recorded for the first candidate
ScanStepStalePosition(acc, ems, train_lat, train_lon) ==
    LET distance == haversine([latitude |-> train_lat, longitude |-> train_lon],
                              [latitude |-> ems.latitude,
                               longitude |-> ems.longitude])
    IN  IF distance < acc.min_distance
        THEN [closest_ems |-> ems.station_name,
              closest_lat |-> IF acc.closest_lat = NoneVal
                              THEN ems.latitude ELSE acc.closest_lat,
              closest_lon |-> IF acc.closest_lon = NoneVal
                              THEN ems.longitude ELSE acc.closest_lon,
              min_distance |-> distance]
        ELSE acc

\* mutant of ScanStep: <= instead of <, the last minimum wins
ScanStepLastMinimum(acc, ems, train_lat, train_lon) ==
    LET distance == haversine([latitude |-> train_lat, longitude |-> train_lon],
                              [latitude |-> ems.latitude,
                               longitude |-> ems.longitude])
    IN  IF distance <= acc.min_distance
        THEN [closest_ems |-> ems.station_name,
              closest_lat |-> ems.latitude,
              closest_lon |-> ems.longitude,
              min_distance |-> distance]
        ELSE acc

\* lines 49-60: one iteration of the scan over ems_stations.iterrows();
\* acc is (closest_ems, closest_lat, closest_lon, min_distance)
ScanStep(acc, ems, train_lat, train_lon) ==
    LET ems_coords == [latitude |-> ems.latitude, longitude |-> ems.longitude]
        train_coords == [latitude |-> train_lat, longitude |-> train_lon]
        distance == haversine(train_coords, ems_coords)
    IN  IF distance < acc.min_distance
        THEN [closest_ems |-> ems.station_name,
              closest_lat |-> ems.latitude,
              closest_lon |-> ems.longitude,
              min_distance |-> distance]
        ELSE acc

RECURSIVE Scan(_, _, _, _, _)
Scan(acc, ems_seq, k, train_lat, train_lon) ==
    IF k > Len(ems_seq) THEN acc
    ELSE Scan(ScanStep(acc, ems_seq[k], train_lat, train_lon),
              ems_seq, k + 1, train_lat, train_lon)

\* lines 33-62
find_closest_ems(train_lat, train_lon, ems_seq) ==
    Scan([closest_ems |-> NoneVal, closest_lat |-> NoneVal,
          closest_lon |-> NoneVal, min_distance |-> Inf],
         ems_seq, 1, train_lat, train_lon)

\* lines 65-67: the four new columns of one row
WithMatch(row, r) ==
    [train_station_short_code |-> row.train_station_short_code,
     train_lat |-> row.train_lat,
     train_long |-> row.train_long,
     closest_ems_station |-> r.closest_ems,
     ems_latitude |-> r.closest_lat,
     ems_longitude |-> r.closest_lon,
     distance_km |-> r.min_distance]

(***************************************************************************)
(* Input domains.                                                          *)
(***************************************************************************)
TrainCodes == {"HKI", "OL"}
EmsNames == {"W1", "W2"}

\* a row of the railway registry as the metadata endpoint delivers it
StationName(code) == IF code = "HKI" THEN "Helsinki asema" ELSE "Oulu asema"

TrainRow(code, pos) ==
    [stationName |-> StationName(code), stationShortCode |-> code,
     latitude |-> pos.latitude, longitude |-> pos.longitude,
     type |-> "STATION", stationUICCode |-> code, countryCode |-> "FI",
     passengerTraffic |-> "True"]

EmsRow(name, pos) ==
    [station_name |-> name, latitude |-> pos.latitude,
     longitude |-> pos.longitude]

TrainRows == {TrainRow(c, p) : c \in TrainCodes, p \in Positions}
EmsRows == {EmsRow(n, p) : n \in EmsNames, p \in Positions}

\* the registries of the reference scenario: HKI next to W1, OL on W2
ScenarioTrainStations == <<TrainRow("HKI", PosR), TrainRow("OL", PosB)>>
ScenarioEms == <<EmsRow("W1", PosA), EmsRow("W2", PosB)>>

(***************************************************************************)
(* match_train_with_ems as steps: the call (drop/rename), one step per row *)
(* of DataFrame.apply, the column assignment and return.                   *)
(***************************************************************************)
\* mutant of CallerFrame: the columns are dropped in place
CallerFrameDroppedInPlace(rows) ==
    [i \in DOMAIN rows |->
        [stationName |-> rows[i].stationName,
         stationShortCode |-> rows[i].stationShortCode,
         longitude |-> rows[i].longitude,
         latitude |-> rows[i].latitude]]

\* line 20: drop(columns=[...]) is called without inplace and returns a new
\* frame, which the local name is rebound to; the frame the caller passed in
\* keeps its rows and columns (lines 23-30 and 65-67 work on the new frame)
CallerFrame(rows) == rows

\* lines 19-30.  An empty railway registry is the column-less pd.DataFrame()
\* that load_railway_metadata returns (data_handler.py lines 27-40);
\* drop(columns=[...]) raises KeyError on it.
MatchCall ==
    /\ m_pc = "idle"
    /\ IF Len(train_stations) > 0
       THEN /\ m_local' = [i \in DOMAIN train_stations |->
                              DropRename(train_stations[i])]
            /\ m_pc' = "apply"
            /\ exc' = exc
       ELSE /\ m_local' = m_local
            /\ m_pc' = "raised"
            /\ exc' = "KeyError"
    /\ train_stations' = CallerFrame(train_stations)
    /\ UNCHANGED <<ems_stations, m_applied, matched_stations_df,
                   m_calls_left, m_returns, log>>
    /\ UNCHANGED j_vars
    /\ UNCHANGED in_vars
    /\ UNCHANGED ext_vars

\* lines 65-67: apply calls find_closest_ems on the next row
MatchApplyRow ==
    /\ m_pc = "apply"
    /\ Len(m_applied) < Len(m_local)
    /\ LET row == m_local[Len(m_applied) + 1]
       IN  m_applied' = Append(m_applied,
               find_closest_ems(row.train_lat, row.train_long, ems_stations))
    /\ UNCHANGED <<train_stations, ems_stations, m_pc, m_local,
                   matched_stations_df, m_calls_left, m_returns, log, exc>>
    /\ UNCHANGED j_vars
    /\ UNCHANGED in_vars
    /\ UNCHANGED ext_vars

\* lines 65-69: the four columns are assigned, the local frame is returned.
\* A caller that has calls left calls again with the same two registries; the
\* locals of the finished call are gone.
MatchReturn ==
    /\ m_pc = "apply"
    /\ Len(m_applied) = Len(m_local)
    /\ matched_stations_df' = [i \in DOMAIN m_local |->
                                  WithMatch(m_local[i], m_applied[i])]
    /\ m_returns' = Append(m_returns, matched_stations_df')
    /\ IF m_calls_left > 0
       THEN /\ m_pc' = "idle"
            /\ m_local' = <<>>
            /\ m_applied' = <<>>
            /\ m_calls_left' = m_calls_left - 1
       ELSE /\ m_pc' = "returned"
            /\ UNCHANGED <<m_local, m_applied, m_calls_left>>
    /\ UNCHANGED <<train_stations, ems_stations, log, exc>>
    /\ UNCHANGED j_vars
    /\ UNCHANGED in_vars
    /\ UNCHANGED ext_vars

(***************************************************************************)
(* Times.  A timestamp cell of the observation table is a raw string       *)
(* (tag "str"), a parsed datetime (tag "dt", minutes) or NaT.              *)
(***************************************************************************)
NaT == [tag |-> "NaT", v |-> 0]
RawCell(s) == [tag |-> "str", v |-> s]
DtCell(n) == [tag |-> "dt", v |-> n]

\* observation timestamps as the weather table carries them
ObsClock ==
    [s \in {"2024-01-01 10:00:00", "2024-01-01 11:00:00",
            "2024-01-01 12:00:00"} |->
        CASE s = "2024-01-01 10:00:00" -> 600
          [] s = "2024-01-01 11:00:00" -> 660
          [] s = "2024-01-01 12:00:00" -> 720]
RawTimestamps == DOMAIN ObsClock \cup {"n/a"}

\* line 91, line 123: pd.to_datetime(cell, errors="coerce")
to_datetime(cell) ==
    IF cell.tag = "str"
    THEN IF cell.v \in DOMAIN ObsClock THEN DtCell(ObsClock[cell.v]) ELSE NaT
    ELSE cell

\* scheduled times that match "%Y-%m-%dT%H:%M:%S.%fZ"
SchedClock ==
    [s \in {"2024-01-01T09:00:00.000Z", "2024-01-01T10:29:00.000Z",
            "2024-01-01T10:30:00.000Z", "2024-01-01T10:31:00.000Z",
            "2024-01-01T11:00:00.000Z", "2024-01-01T23:59:00.000Z"} |->
        CASE s = "2024-01-01T09:00:00.000Z" -> 540
          [] s = "2024-01-01T10:29:00.000Z" -> 629
          [] s = "2024-01-01T10:30:00.000Z" -> 630
          [] s = "2024-01-01T10:31:00.000Z" -> 631
          [] s = "2024-01-01T11:00:00.000Z" -> 660
          [] s = "2024-01-01T23:59:00.000Z" -> 1439]

\* a scheduled time without fractional seconds: strptime raises ValueError
BadTime == "2024-01-01T10:30:00Z"

\* line 111: datetime.strptime(scheduled_time, "%Y-%m-%dT%H:%M:%S.%fZ")
strptime_ok(s) == s \in DOMAIN SchedClock
strptime(s) == SchedClock[s]

\* Python truthiness of a stop field (line 177)
Truthy(v) == v \notin {NoneVal, ""}

(***************************************************************************)
(* merge_train_weather_data: the per-station frames (lines 90-97)          *)
(***************************************************************************)
\* mutant of CoerceTimestamps: rows whose timestamp does not parse are
\* removed from the caller's table
CoerceTimestampsDropInvalid(rows) ==
    SelectSeq([i \in DOMAIN rows |->
                  [rows[i] EXCEPT !.timestamp = to_datetime(rows[i].timestamp)]],
              LAMBDA r : r.timestamp # NaT)

\* line 91: the caller's timestamp column is replaced by the parsed one
CoerceTimestamps(rows) ==
    [i \in DOMAIN rows |->
        [rows[i] EXCEPT !.timestamp = to_datetime(rows[i].timestamp)]]

\* line 96: groupby("station_name") keeps each station's rows in table order
GroupRows(rows, station) ==
    SelectSeq(rows, LAMBDA r : r.station_name = station)

StationsOf(rows) == {rows[i].station_name : i \in DOMAIN rows}

\* mutant of SortedBefore: the frame is sorted by descending timestamp
SortedBeforeDescending(rows, i, j) ==
    LET a == rows[i].timestamp
        b == rows[j].timestamp
    IN  IF a = NaT THEN b = NaT /\ i < j
        ELSE IF b = NaT THEN TRUE
        ELSE a.v >= b.v

\* line 95: sort_values(by="timestamp") is an unstable sort: ascending
\* timestamps, rows of equal timestamp in any order, NaT rows last in their
\* original order.  perm[k] is the original place of the k-th sorted row.
SortedBefore(rows, i, j) ==
    LET a == rows[i].timestamp
        b == rows[j].timestamp
    IN  IF a = NaT THEN b = NaT /\ i < j
        ELSE IF b = NaT THEN TRUE
        ELSE a.v <= b.v

SortPerms(rows) ==
    {perm \in [DOMAIN rows -> DOMAIN rows] :
        /\ \A i, j \in DOMAIN rows : i # j => perm[i] # perm[j]
        /\ \A i, j \in DOMAIN rows :
              i < j => SortedBefore(rows, perm[i], perm[j])}

\* mutant of sort_values: the frame is left in table order
sort_values_unsorted(rows) == {rows}

sort_values(rows) ==
    {[k \in DOMAIN rows |-> rows[perm[k]]] : perm \in SortPerms(rows)}

\* lines 94-97: every dictionary the comprehension can build
WeatherDicts(rows) ==
    LET stations == StationsOf(rows)
        frames == UNION {sort_values(GroupRows(rows, st)) : st \in stations}
    IN  {d \in [stations -> frames] :
            \A st \in stations : d[st] \in sort_values(GroupRows(rows, st))}

(***************************************************************************)
(* merge_train_weather_data: find_closest_weather (lines 99-159)           *)
(***************************************************************************)
Abs(n) == IF n < 0 THEN 0 - n ELSE n

\* np.searchsorted(a, key), side="left": binary search for the insertion
\* point, 0-based
RECURSIVE bisect_left(_, _, _, _)
bisect_left(a, key, lo, hi) ==
    IF lo < hi
    THEN LET mid == (lo + hi) \div 2
         IN  IF a[mid + 1] < key
             THEN bisect_left(a, key, mid + 1, hi)
             ELSE bisect_left(a, key, lo, mid)
    ELSE lo

searchsorted(a, key) == bisect_left(a, key, 0, Len(a))

\* mutant of ClosestIdx: an exact tie goes to the later observation
ClosestIdxTieAfter(timestamps, t) ==
    LET idx == searchsorted(timestamps, t)
    IN  IF idx = 0 THEN 0
        ELSE IF idx >= Len(timestamps) THEN Len(timestamps) - 1
        ELSE LET before == Abs(timestamps[idx] - t)
                 after == Abs(timestamps[idx + 1] - t)
             IN  IF after <= before THEN idx ELSE idx - 1

\* mutant of ClosestIdx: past the end the insertion point itself is used
ClosestIdxNoClamp(timestamps, t) ==
    LET idx == searchsorted(timestamps, t)
    IN  IF idx = 0 THEN 0
        ELSE IF idx >= Len(timestamps) THEN idx
        ELSE LET before == Abs(timestamps[idx] - t)
                 after == Abs(timestamps[idx + 1] - t)
             IN  IF after < before THEN idx ELSE idx - 1

\* lines 136-147: the 0-based position of the row to take
ClosestIdx(timestamps, t) ==
    LET idx == searchsorted(timestamps, t)
    IN  IF idx = 0 THEN 0
        ELSE IF idx >= Len(timestamps) THEN Len(timestamps) - 1
        ELSE LET before == Abs(timestamps[idx] - t)
                 after == Abs(timestamps[idx + 1] - t)
             IN  IF after < before THEN idx ELSE idx - 1

\* a Python dict as its key order plus its items
EmptyMapping == [keys |-> <<>>]
\* the stop dictionary has no "weather_observations" key
KeyAbsent == [absent |-> TRUE]
NoRow == [absent |-> TRUE]

\* mutant of WeatherDict: the row is copied whole, its station_name and
\* timestamp included
WeatherDictWholeRow(closest_row) ==
    [keys |-> <<"closest_ems", "station_name", "timestamp", "t2m", "ws_10min">>,
     closest_ems |-> closest_row.station_name,
     station_name |-> closest_row.station_name,
     timestamp |-> closest_row.timestamp,
     t2m |-> closest_row.t2m,
     ws_10min |-> closest_row.ws_10min]

\* lines 153-157: the row without station_name and timestamp as a dict, in
\* column order, behind a leading "closest_ems"
WeatherDict(closest_row) ==
    [keys |-> <<"closest_ems", "t2m", "ws_10min">>,
     closest_ems |-> closest_row.station_name,
     t2m |-> closest_row.t2m,
     ws_10min |-> closest_row.ws_10min]

\* lines 122-126: the frame find_closest_weather searches
Dropna(frame) == SelectSeq(frame, LAMBDA r : r.timestamp # NaT)

\* mutant of find_closest_weather: the station is looked up unguarded, a
\* station without observations raises KeyError
find_closest_weather_unguarded(ems_station, scheduled_time, dict) ==
    IF ~strptime_ok(scheduled_time)
    THEN [exc |-> "ValueError", weather_dict |-> EmptyMapping,
          printed |-> <<>>, closest_row |-> NoRow, timestamps |-> <<>>]
    ELSE IF ems_station \notin DOMAIN dict
    THEN [exc |-> "KeyError", weather_dict |-> EmptyMapping,
          printed |-> <<>>, closest_row |-> NoRow, timestamps |-> <<>>]
    ELSE LET station_weather_df == Dropna(dict[ems_station])
             timestamps == [i \in DOMAIN station_weather_df |->
                               station_weather_df[i].timestamp.v]
             closest_idx == ClosestIdx(timestamps, strptime(scheduled_time))
         IN  IF closest_idx + 1 \notin DOMAIN station_weather_df
             THEN [exc |-> "IndexError", weather_dict |-> EmptyMapping,
                   printed |-> <<>>, closest_row |-> NoRow,
                   timestamps |-> timestamps]
             ELSE [exc |-> "None",
                   weather_dict |-> WeatherDict(station_weather_df[closest_idx + 1]),
                   printed |-> <<>>,
                   closest_row |-> station_weather_df[closest_idx + 1],
                   timestamps |-> timestamps]

\* lines 99-159.  exc is the exception that leaves the function ("None" when
\* it returns), printed what it printed, closest_row the row it took,
\* timestamps the array of line 129 (empty when the line is not reached).
find_closest_weather(ems_station, scheduled_time, dict) ==
    IF ~strptime_ok(scheduled_time)
    THEN [exc |-> "ValueError", weather_dict |-> EmptyMapping,
          printed |-> <<>>, closest_row |-> NoRow, timestamps |-> <<>>]
    ELSE IF ems_station \notin DOMAIN dict
    THEN [exc |-> "None", weather_dict |-> EmptyMapping,
          printed |-> <<[msg |-> "No weather data available for EMS",
                         about |-> ems_station]>>,
          closest_row |-> NoRow, timestamps |-> <<>>]
    ELSE LET station_weather_df == Dropna(dict[ems_station])
             timestamps == [i \in DOMAIN station_weather_df |->
                               station_weather_df[i].timestamp.v]
             closest_idx == ClosestIdx(timestamps, strptime(scheduled_time))
         IN  IF closest_idx + 1 \notin DOMAIN station_weather_df
             THEN [exc |-> "IndexError", weather_dict |-> EmptyMapping,
                   printed |-> <<>>, closest_row |-> NoRow,
                   timestamps |-> timestamps]
             ELSE [exc |-> "None",
                   weather_dict |-> WeatherDict(station_weather_df[closest_idx + 1]),
                   printed |-> <<>>,
                   closest_row |-> station_weather_df[closest_idx + 1],
                   timestamps |-> timestamps]

(***************************************************************************)
(* merge_train_weather_data as steps: the call (lines 84-97), one step per *)
(* stop (lines 172-195), the end of a run's timetable, the return.         *)
(***************************************************************************)
\* lines 84-97; the pages call the join on the table match_train_with_ems
\* returned.  sort_values is not stable but it is a function: a call that
\* sorts the very frame the previous call sorted gets the same order.
MergeCall ==
    /\ m_pc = "returned"
    /\ j_pc = "idle"
    /\ fmi_data' = CoerceTimestamps(fmi_data)
    /\ IF Len(j_returns) > 0 /\ fmi_data' = fmi_data
       THEN ems_weather_dict' = ems_weather_dict
       ELSE ems_weather_dict' \in WeatherDicts(fmi_data')
    /\ index_builds' = [station \in DOMAIN ems_weather_dict' |-> 0]
    /\ j_pc' = "loop"
    /\ j_run' = 0
    /\ j_stop' = 0
    /\ UNCHANGED <<train_stations, ems_stations, trains_data, closest_rows,
                   searched, j_calls_left, j_returns, obs_ref, next_obj,
                   poked, lookup_touched, log, exc>>
    /\ UNCHANGED m_vars
    /\ UNCHANGED in_vars
    /\ UNCHANGED ext_vars

\* lines 179-184: the match-table rows of a station code
MatchRows(code) ==
    SelectSeq(matched_stations_df,
              LAMBDA r : r.train_station_short_code = code)

\* mutant of SetWeather: the joined stop is also moved to the head of its
\* timetable
SetWeatherMoveToFront(runs, r, s, weather_data) ==
    LET rows == runs[r + 1].timeTableRows
        joined == [rows[s + 1] EXCEPT !.weather_observations = weather_data]
    IN  [runs EXCEPT ![r + 1].timeTableRows =
            <<joined>> \o SubSeq(rows, 1, s) \o SubSeq(rows, s + 2, Len(rows))]

\* mutant of SetWeather: a stop that already carries a mapping gets the new
\* items added after the ones it has
SetWeatherAccumulate(runs, r, s, weather_data) ==
    LET old == runs[r + 1].timeTableRows[s + 1].weather_observations
    IN  [runs EXCEPT ![r + 1].timeTableRows[s + 1].weather_observations =
            IF "keys" \in DOMAIN old
            THEN [weather_data EXCEPT !.keys = old.keys \o @]
            ELSE weather_data]

\* line 195: train_track["weather_observations"] = weather_data, on the stop
\* dictionary s of run r of trains_data (indices 0-based)
SetWeather(runs, r, s, weather_data) ==
    [runs EXCEPT ![r + 1].timeTableRows[s + 1].weather_observations =
        weather_data]

\* mutant of NewMapping: every gap is the same empty dict object
NewMappingSharedEmpty(n, weather_dict) ==
    IF weather_dict = EmptyMapping
    THEN [kind |-> "dict", id |-> 0 - 1]
    ELSE [kind |-> "dict", id |-> n]

\* lines 117 and 154-157: `{}`, to_dict() and the dict display each build a
\* new dict, the n-th one of the call, whose values are the row's scalars; no
\* dict is kept or handed out twice, none is a view of a frame row
NewMapping(n, weather_dict) == [kind |-> "dict", id |-> n]

\* lines 119-129 are reached: the scheduled time parsed (line 111) and the
\* station has a frame (line 115)
ReachesIndex(ems_station, scheduled_time, dict) ==
    strptime_ok(scheduled_time) /\ ems_station \in DOMAIN dict

\* lines 172-195 for the stop at (j_run, j_stop)
MergeStop ==
    /\ j_pc = "loop"
    /\ j_run < Len(trains_data)
    /\ j_stop < Len(trains_data[j_run + 1].timeTableRows)
    /\ LET train_track == trains_data[j_run + 1].timeTableRows[j_stop + 1]
           station_short_code == train_track.stationShortCode
           scheduled_time == train_track.scheduledTime
           closest_ems_row == MatchRows(station_short_code)
       IN  IF Truthy(station_short_code) /\ Truthy(scheduled_time)
              /\ Len(closest_ems_row) > 0
           THEN LET closest_ems_station == closest_ems_row[1].closest_ems_station
                    res == find_closest_weather(closest_ems_station,
                                                scheduled_time, ems_weather_dict)
                IN  /\ index_builds' =
                         IF ReachesIndex(closest_ems_station, scheduled_time,
                                         ems_weather_dict)
                         THEN [index_builds EXCEPT ![closest_ems_station] = @ + 1]
                         ELSE index_builds
                    /\ searched' =
                         IF ReachesIndex(closest_ems_station, scheduled_time,
                                         ems_weather_dict)
                         THEN (closest_ems_station :> res.timestamps) @@ searched
                         ELSE searched
                    /\ IF res.exc # "None"
                       THEN /\ exc' = res.exc
                            /\ j_pc' = "raised"
                            /\ UNCHANGED <<trains_data, j_stop, closest_rows,
                                           obs_ref, next_obj, log>>
                       ELSE /\ trains_data' =
                                 SetWeather(trains_data, j_run, j_stop,
                                            res.weather_dict)
                            /\ log' = log \o res.printed \o
                                 (IF res.weather_dict = EmptyMapping
                                  THEN <<[msg |-> "No weather data available for",
                                          about |-> closest_ems_station]>>
                                  ELSE <<>>)
                            /\ closest_rows' =
                                 (<<j_run, j_stop>> :> res.closest_row) @@ closest_rows
                            /\ obs_ref' =
                                 (<<j_run, j_stop>> :>
                                     NewMapping(next_obj, res.weather_dict))
                                 @@ obs_ref
                            /\ next_obj' = next_obj + 1
                            /\ j_stop' = j_stop + 1
                            /\ UNCHANGED <<j_pc, exc>>
           ELSE /\ j_stop' = j_stop + 1
                /\ UNCHANGED <<trains_data, closest_rows, index_builds,
                               searched, obs_ref, next_obj, log, j_pc, exc>>
    /\ UNCHANGED <<train_stations, ems_stations, fmi_data, j_run,
                   ems_weather_dict, j_calls_left, j_returns, poked,
                   lookup_touched>>
    /\ UNCHANGED m_vars
    /\ UNCHANGED in_vars
    /\ UNCHANGED ext_vars

\* line 172: the timetable of the run is exhausted, line 164 takes the next
MergeRunDone ==
    /\ j_pc = "loop"
    /\ j_run < Len(trains_data)
    /\ j_stop = Len(trains_data[j_run + 1].timeTableRows)
    /\ j_run' = j_run + 1
    /\ j_stop' = 0
    /\ UNCHANGED <<train_stations, ems_stations, fmi_data, trains_data, j_pc,
                   ems_weather_dict, closest_rows, index_builds, searched,
                   j_calls_left, j_returns, obs_ref, next_obj, poked,
                   lookup_touched, log, exc>>
    /\ UNCHANGED m_vars
    /\ UNCHANGED in_vars
    /\ UNCHANGED ext_vars

\* line 199: the list passed in is returned.  A caller that has calls left
\* calls again, on what it now holds: the returned runs, its observation
\* table and the same match table.
MergeReturn ==
    /\ j_pc = "loop"
    /\ j_run = Len(trains_data)
    /\ j_returns' = Append(j_returns, trains_data)
    /\ IF j_calls_left > 0
       THEN /\ j_pc' = "idle"
            /\ j_calls_left' = j_calls_left - 1
       ELSE /\ j_pc' = "returned"
            /\ j_calls_left' = j_calls_left
    /\ UNCHANGED <<train_stations, ems_stations, fmi_data, trains_data, j_run,
                   j_stop, ems_weather_dict, closest_rows, index_builds,
                   searched, obs_ref, next_obj, poked, lookup_touched, log,
                   exc>>
    /\ UNCHANGED m_vars
    /\ UNCHANGED in_vars
    /\ UNCHANGED ext_vars

\* a mapping after the caller has set the key "note" on it
Poked(weather_data) ==
    ("note" :> "x") @@ [weather_data EXCEPT !.keys = Append(@, "note")]

\* The caller, holding the returned runs, writes a key into the mapping of
\* one stop.  The write lands in the dict object the stop refers to (line 195
\* stored a reference): every stop that refers to the same object shows it.
Poke ==
    /\ j_pc = "returned"
    /\ poked = NoneVal
    /\ \E p \in DOMAIN obs_ref :
          /\ poked' = p
          /\ lookup_touched' = (obs_ref[p].kind = "row")
          /\ trains_data' =
                [r \in DOMAIN trains_data |->
                    [trains_data[r] EXCEPT !.timeTableRows =
                        [t \in DOMAIN trains_data[r].timeTableRows |->
                            IF /\ <<r - 1, t - 1>> \in DOMAIN obs_ref
                               /\ obs_ref[<<r - 1, t - 1>>] = obs_ref[p]
                            THEN [trains_data[r].timeTableRows[t] EXCEPT
                                     !.weather_observations = Poked(@)]
                            ELSE trains_data[r].timeTableRows[t]]]]
    /\ UNCHANGED <<train_stations, ems_stations, fmi_data, j_pc, j_run, j_stop,
                   ems_weather_dict, closest_rows, index_builds, searched,
                   j_calls_left, j_returns, obs_ref, next_obj, log, exc>>
    /\ UNCHANGED m_vars
    /\ UNCHANGED in_vars
    /\ UNCHANGED ext_vars

Next ==
    \/ MatchCall
    \/ MatchApplyRow
    \/ MatchReturn
    \/ MergeCall
    \/ MergeStop
    \/ MergeRunDone
    \/ MergeReturn

(***************************************************************************)
(* Inputs of the join.                                                     *)
(***************************************************************************)
\* a stop as the timetable delivers it
Stop(code, time) ==
    [stationShortCode |-> code, scheduledTime |-> time, type |-> "DEPARTURE",
     weather_observations |-> KeyAbsent]

Run(number, stops) ==
    [trainNumber |-> number, departureDate |-> "2024-01-01",
     timeTableRows |-> stops]

\* "XX" is a station the registry does not know
StopCodes == TrainCodes \cup {"XX", NoneVal}
StopTimes == DOMAIN SchedClock \cup {BadTime, NoneVal}
Stops == {Stop(c, t) : c \in StopCodes, t \in StopTimes}

\* a row of the observation table: station, timestamp and two measurement
\* columns; row i measures t2m = i and ws_10min = i + 10
ObsRow(station, raw, i) ==
    [station_name |-> station, timestamp |-> RawCell(raw), t2m |-> i,
     ws_10min |-> i + 10]

ObsTables ==
    {[i \in DOMAIN cells |-> ObsRow(cells[i][1], cells[i][2], i)] :
     cells \in SeqsUpTo(EmsNames \X RawTimestamps, MaxObs)}

\* the observations and runs of the reference scenario
ScenarioFmi ==
    <<ObsRow("W1", "2024-01-01 10:00:00", 1),
      ObsRow("W1", "2024-01-01 11:00:00", 2),
      ObsRow("W1", "2024-01-01 12:00:00", 3)>>
ScenarioTrains ==
    <<Run(1, <<Stop("HKI", "2024-01-01T10:30:00.000Z"),
               Stop("OL", "2024-01-01T23:59:00.000Z")>>)>>

InitCommon ==
    /\ m_pc = "idle"
    /\ m_local = <<>>
    /\ m_applied = <<>>
    /\ matched_stations_df = <<>>
    /\ m_returns = <<>>
    /\ index_builds = <<>>
    /\ searched = <<>>
    /\ j_returns = <<>>
    /\ obs_ref = <<>>
    /\ next_obj = 0
    /\ poked = NoneVal
    /\ lookup_touched = FALSE
    /\ trains_data_in = trains_data
    /\ fmi_data_in = fmi_data
    /\ train_stations_in = train_stations
    /\ ems_stations_in = ems_stations
    /\ j_pc = "idle"
    /\ j_run = 0
    /\ j_stop = 0
    /\ ems_weather_dict = <<>>
    /\ closest_rows = <<>>
    /\ log = <<>>
    /\ exc = "None"

(***************************************************************************)
(* fetch_fmi_data (src/finnish_weather/data_handler.py 12..106) as steps:  *)
(* the head of the chunk loop, one query of the retry loop, the move to    *)
(* the next chunk, the return.  Times are hours since 00:00 of the date.   *)
(***************************************************************************)
MaxChunkHours == 5
MaxRetries == 3
\* the service returns data for at most this many chunks of a day
MaxDataChunks == 2

\* line 34: end_day = start_day + timedelta(days=1)
HoursPerDay == 24

\* no chunk was given up so far
NotSkipped == 0 - 1

\* a name of the script to which nothing was assigned yet
Undefined == [defined |-> FALSE, rows |-> {}]

\* the pair of tables before the function has put anything into them
NoTables == [data |-> <<>>, metadata |-> {}]

\* line 30: station_metadata = {}
EmptyMeta == [from_day |-> 0 - 1, from_chunk |-> 0 - 1, stations |-> {}]

\* obs.location_metadata of the answer to the query of the chunk at hour h
\* of day d
LocationMetadata(d, h) ==
    [from_day |-> d, from_chunk |-> h, stations |-> EmsNames]

\* lines 73-83: the frame of a chunk, one row per station and timestamp
ChunkFrame(d, h) ==
    <<[timestamp |-> d * HoursPerDay + h, station_name |-> "W1"],
      [timestamp |-> d * HoursPerDay + h, station_name |-> "W2"]>>

\* mutant of ChunkEnd: the last chunk is not clipped to the end of the day
ChunkEndUnclipped(start, hours) == start + hours

\* lines 39-41
ChunkEnd(start, hours) ==
    IF start + hours > HoursPerDay THEN HoursPerDay ELSE start + hours

\* mutant of Breaks: an answer without data is tried again
BreaksOnDataOnly(outcome) == outcome = "data"

\* lines 65-67 and 84: the retry loop is left by break
Breaks(outcome) == outcome \in {"data", "empty"}

\* mutant of NextAttempt: the attempt counter is not advanced
NextAttemptSame(n) == n

\* line 93
NextAttempt(n) == n + 1

\* mutant of CaptureMetadata: every chunk with data replaces the metadata
CaptureMetadataAlways(held, location_metadata) == location_metadata

\* lines 69-71: an empty dict is false
CaptureMetadata(held, location_metadata) ==
    IF held.stations = {} THEN location_metadata ELSE held

\* mutant of concat: the chunks are combined last first
concat_reversed(frames) ==
    IF Len(frames) = 0 THEN <<>>
    ELSE LET RECURSIVE rev(_)
             rev(k) == IF k = 0 THEN <<>> ELSE frames[k] \o rev(k - 1)
         IN  rev(Len(frames))

\* line 99: pd.concat(all_data, ignore_index=True), pd.DataFrame() when the
\* list is empty
concat(frames) ==
    LET RECURSIVE cat(_)
        cat(k) == IF k = 0 THEN <<>> ELSE cat(k - 1) \o frames[k]
    IN  cat(Len(frames))

\* lines 102-104: the metadata dict as a table, one row per station
MetadataFrame(meta) ==
    {[station_name |-> st, from_day |-> meta.from_day,
      from_chunk |-> meta.from_chunk] : st \in meta.stations}

\* the service answers every query in any of the three ways
AnyService == [kind |-> "any", wet |-> {}, hours |-> {}, down |-> {}]

\* line 62: what download_stored_query can do for query n of the chunk at
\* hour h of day d: return data, return nothing or raise.  A service that
\* follows a plan has observations on the days in wet; on these it returns
\* data for the chunks at the hours in hours and is down (every query raises)
\* for the chunks at the hours in down.
Answers(svc, d, h, n) ==
    IF svc.kind = "any" THEN {"data", "empty", "fail"}
    ELSE IF d \notin svc.wet THEN {"empty"}
    ELSE IF h \in svc.hours THEN {"data"}
    ELSE IF h \in svc.down THEN {"fail"}
    ELSE {"empty"}

\* lines 37-58: the loop condition holds, the window of the chunk is set and
\* the retry loop is entered
FetchChunk ==
    /\ f_pc = "chunk"
    /\ current_time < HoursPerDay
    /\ chunk_end' = ChunkEnd(current_time, chunk_hours)
    /\ f_windows' = Append(f_windows, <<current_time, chunk_end'>>)
    /\ attempt' = 1
    /\ broke' = FALSE
    /\ f_queries' = 0
    /\ f_settled' = FALSE
    /\ f_pc' = "retry"
    /\ UNCHANGED <<chunk_hours, max_retries, current_time, all_data,
                   station_metadata, f_late_query, f_ok_chunks, f_skipped,
                   f_result, date, service>>
    /\ UNCHANGED outer_vars

\* lines 59-93: one pass of the retry loop.  The query returns data, returns
\* nothing or raises.
FetchAttempt ==
    /\ f_pc = "retry"
    /\ ~broke
    /\ attempt <= max_retries
    /\ \E outcome \in Answers(service, date, current_time, attempt) :
          /\ outcome = "data" => Len(f_ok_chunks) < MaxDataChunks
          /\ broke' = Breaks(outcome)
          /\ attempt' = IF Breaks(outcome) THEN attempt ELSE NextAttempt(attempt)
          /\ IF outcome = "data"
             THEN /\ station_metadata' =
                       CaptureMetadata(station_metadata,
                                       LocationMetadata(date, current_time))
                  /\ all_data' = Append(all_data, ChunkFrame(date, current_time))
                  /\ f_ok_chunks' = Append(f_ok_chunks, current_time)
             ELSE UNCHANGED <<station_metadata, all_data, f_ok_chunks>>
          /\ f_skipped' =
                IF outcome = "fail" /\ attempt >= max_retries
                THEN Len(f_ok_chunks)
                ELSE f_skipped
          /\ f_settled' = IF outcome = "fail" THEN f_settled ELSE TRUE
    /\ f_late_query' = IF f_settled THEN TRUE ELSE f_late_query
    /\ f_queries' = IF f_queries > max_retries THEN f_queries ELSE f_queries + 1
    /\ UNCHANGED <<chunk_hours, max_retries, f_pc, current_time, chunk_end,
                   f_windows, f_result, date, service>>
    /\ UNCHANGED outer_vars

\* lines 95-96: the retry loop is over, by break or because the attempts are
\* used up; the next chunk starts where this one ended
FetchAdvance ==
    /\ f_pc = "retry"
    /\ IF broke THEN TRUE ELSE attempt > max_retries
    /\ current_time' = chunk_end
    /\ f_pc' = "chunk"
    /\ UNCHANGED <<chunk_hours, max_retries, chunk_end, attempt, broke,
                   all_data, station_metadata, f_windows, f_queries,
                   f_settled, f_late_query, f_ok_chunks, f_skipped, f_result,
                   date, service>>
    /\ UNCHANGED outer_vars

\* lines 98-106
FetchReturn ==
    /\ f_pc = "chunk"
    /\ current_time >= HoursPerDay
    /\ f_result' = [data |-> concat(all_data),
                    metadata |-> MetadataFrame(station_metadata)]
    /\ f_pc' = "returned"
    /\ UNCHANGED <<chunk_hours, max_retries, current_time, chunk_end, attempt,
                   broke, all_data, station_metadata, f_windows, f_queries,
                   f_settled, f_late_query, f_ok_chunks, f_skipped, date,
                   service>>
    /\ UNCHANGED outer_vars

NextFetch ==
    \/ FetchChunk
    \/ FetchAttempt
    \/ FetchAdvance
    \/ FetchReturn

(***************************************************************************)
(* clean_fmi_data (src/finnish_weather/data_handler.py 131..154).  A table *)
(* is a sequence of rows; a row is a record, so the order of its columns   *)
(* (lines 147-149) does not show.                                          *)
(***************************************************************************)
MaxCleanRows == 3

\* the place of a station name in the order of Python strings
StationRank(name) == IF name = "W1" THEN 1 ELSE 2

\* rows a weather table can hold: two stations, two timestamps, two values
CleanRows ==
    [timestamp : 1..2, station_name : EmsNames, t2m : 1..2]

\* subset=["timestamp", "station_name"]
SamePair(a, b) ==
    a.timestamp = b.timestamp /\ a.station_name = b.station_name

\* the rows of df at the places in keep, in table order
RECURSIVE RowsAt(_, _, _)
RowsAt(df, keep, k) ==
    IF k = 0 THEN <<>>
    ELSE IF k \in keep THEN Append(RowsAt(df, keep, k - 1), df[k])
    ELSE RowsAt(df, keep, k - 1)

\* mutant of drop_duplicates: keep="last"
drop_duplicates_keep_last(df) ==
    RowsAt(df, {i \in DOMAIN df :
                   \A j \in DOMAIN df : j > i => ~SamePair(df[j], df[i])},
           Len(df))

\* line 145: drop_duplicates(subset=..., keep="first")
drop_duplicates(df) ==
    RowsAt(df, {i \in DOMAIN df :
                   \A j \in DOMAIN df : j < i => ~SamePair(df[j], df[i])},
           Len(df))

\* by=["station_name", "timestamp"], ascending
PairBefore(a, b) ==
    \/ StationRank(a.station_name) < StationRank(b.station_name)
    \/ /\ a.station_name = b.station_name
       /\ a.timestamp < b.timestamp

\* line 152: sort_values over two columns is a stable sort; the row at place
\* i goes behind the rows that sort before it and the equal ones above it
sort_by_station_and_time(df) ==
    LET place(i) ==
            Cardinality({j \in DOMAIN df :
                            \/ PairBefore(df[j], df[i])
                            \/ SamePair(df[j], df[i]) /\ j < i}) + 1
    IN  [k \in DOMAIN df |-> df[CHOOSE i \in DOMAIN df : place(i) = k]]

\* lines 131-154
clean_fmi_data(df) == sort_by_station_and_time(drop_duplicates(df))

\* clean_fmi_data is called on the table, then on what it returned
CleanCall ==
    /\ Len(clean_out) < 2
    /\ clean_out' =
          Append(clean_out,
                 clean_fmi_data(IF clean_out = <<>> THEN clean_in
                                ELSE clean_out[Len(clean_out)]))
    /\ UNCHANGED clean_in
    /\ UNCHANGED <<core_vars, f_vars, p_vars>>

NextClean == CleanCall

(***************************************************************************)
(* The scripts that fetch a date range: src/main.py, page 8                *)
(* (src/pages/8_..Train_HKI_OL_ROI.py) and page 9                          *)
(* (src/pages/9_..NEWTrain_HKI_OL_ROI.py), from the pressed button on.     *)
(* A date is the number of days since 2024-01-01.                          *)
(***************************************************************************)
\* days of the months of 2024 and 2025
MonthLengths ==
    <<31, 29, 31, 30, 31, 30, 31, 31, 30, 31, 30, 31,
      31, 28, 31, 30, 31, 30, 31, 31, 30, 31, 30, 31>>

\* the calendar month of a date, counted from January 2024 = 1
RECURSIVE MonthFrom(_, _)
MonthFrom(d, k) ==
    IF d < MonthLengths[k] THEN k ELSE MonthFrom(d - MonthLengths[k], k + 1)

CalendarMonth(d) == MonthFrom(d, 1)

\* date.month
MonthOf(d) == ((CalendarMonth(d) - 1) % 12) + 1

\* the date of a timestamp of the weather tables
DayOf(timestamp) == timestamp \div HoursPerDay

\* names of the files of the output folder: a base name and the month number
\* the name carries, 0 if it carries none
CSV_TRAIN_STATIONS == <<"train_station", 0>>
CSV_ALL_TRAINS == <<"all_trains_data", 0>>
CSV_FMI == <<"fmi_weather_observations", 0>>
CSV_FMI_EMS == <<"fmi_ems_stations", 0>>
CSV_CROSS_STATIONS == <<"cross_stations", 0>>
CSV_CROSS_DATA == <<"cross_data", 0>>
MonthlyCsv(base, m) == <<base, m>>

\* misc_functions.py 7-23: to_csv replaces the file of that name
save_dataframe_to_csv(fs, saves, name, df) ==
    <<(name :> df) @@ fs, Append(saves, [name |-> name, rows |-> df])>>

\* called by page 8 (line 202, 218): the rows go behind those of the file
append_dataframe_to_csv(fs, saves, name, df) ==
    <<(name :> (IF name \in DOMAIN fs THEN fs[name] \o df ELSE df)) @@ fs,
      Append(saves, [name |-> name, rows |-> df])>>

\* called by main.py (line 203): some table made from the one handed over
transform_fmi_data(df) == <<[transformed |-> df]>>

\* the weather table of a batch: concatenated, cleaned (page 9: 181-182)
BatchTable(batch) == clean_fmi_data(concat(batch))

NoStationMetadata == "No station metadata available. Exiting..."
NoTrainData == "No train data available for the specified date range."
NoEmsMetadata == "No EMS station metadata available."

\* the locals of fetch_fmi_data are gone
FetchGone ==
    /\ f_pc' = "idle"
    /\ current_time' = 0
    /\ chunk_end' = 0
    /\ attempt' = 1
    /\ broke' = FALSE
    /\ all_data' = <<>>
    /\ station_metadata' = EmptyMeta
    /\ f_windows' = <<>>
    /\ f_queries' = 0
    /\ f_settled' = FALSE
    /\ f_ok_chunks' = <<>>
    /\ f_skipped' = NotSkipped
    /\ f_result' = NoTables
    /\ UNCHANGED <<chunk_hours, max_retries, f_late_query, date, service>>

\* main.py 83-88, page 8 87-93, page 9 90-96: the station metadata is loaded
\* and checked; the pages stop when it is empty, main.py goes on
PageStations ==
    /\ p_pc = "stations"
    /\ IF railway_metadata = <<>>
       THEN /\ p_log' = p_log \cup {NoStationMetadata}
            /\ p_pc' = IF script = "main" THEN "trains" ELSE "stopped"
            /\ UNCHANGED <<files, p_saves>>
       ELSE LET w == save_dataframe_to_csv(files, p_saves, CSV_TRAIN_STATIONS,
                                           railway_metadata)
            IN  /\ files' = w[1]
                /\ p_saves' = w[2]
                /\ p_pc' = "trains"
                /\ UNCHANGED p_log
    /\ UNCHANGED <<script, start_date, end_date, railway_metadata, p_daily,
                   trains_available, current_date, current_month,
                   monthly_fmi_data, all_fmi_data, all_ems_metadata,
                   ems_metadata_combined, p_fetched, p_exc>>
    /\ UNCHANGED <<core_vars, f_vars, c_vars>>

\* page 9 109-166: the trains of every calendar month k..last of the range
\* are saved under the month number
RECURSIVE SaveTrainMonths(_, _, _)
SaveTrainMonths(w, k, last) ==
    IF k > last THEN w
    ELSE SaveTrainMonths(
             save_dataframe_to_csv(w[1], w[2],
                 MonthlyCsv("all_trains_data", ((k - 1) % 12) + 1),
                 ScenarioTrains),
             k + 1, last)

\* main.py 91-169, page 8 95-169, page 9 99-178: the trains of the range are
\* fetched and saved; without trains the pages stop and main.py goes on.
\* Then the weather loop is set up.
PageTrains ==
    /\ p_pc = "trains"
    /\ p_fetched' = p_fetched \cup {"trains"}
    /\ IF trains_available
       THEN LET w == IF script = "page9"
                     THEN SaveTrainMonths(<<files, p_saves>>,
                                          CalendarMonth(start_date),
                                          CalendarMonth(end_date))
                     ELSE save_dataframe_to_csv(files, p_saves,
                                                CSV_ALL_TRAINS, ScenarioTrains)
            IN  /\ files' = w[1]
                /\ p_saves' = w[2]
                /\ p_pc' = "fmi"
                /\ UNCHANGED p_log
       ELSE /\ p_log' = p_log \cup {NoTrainData}
            /\ p_pc' = IF script = "main" THEN "fmi" ELSE "stopped"
            /\ UNCHANGED <<files, p_saves>>
    /\ all_fmi_data' = <<>>
    /\ all_ems_metadata' = <<>>
    /\ monthly_fmi_data' = <<>>
    /\ current_date' = start_date
    /\ current_month' = MonthOf(start_date)
    /\ UNCHANGED <<script, start_date, end_date, railway_metadata, p_daily,
                   trains_available, ems_metadata_combined, p_exc>>
    /\ UNCHANGED <<core_vars, f_vars, c_vars>>

\* main.py 171-175, page 8 172-176, page 9 184-206: the head of the weather
\* loop up to the call of fetch_fmi_data.  Page 9 first saves the batch of
\* the month that has ended.
PageFmiDay ==
    /\ p_pc = "fmi"
    /\ current_date <= end_date
    /\ IF script = "page9" /\ MonthOf(current_date) # current_month
       THEN /\ IF monthly_fmi_data # <<>>
               THEN LET w == save_dataframe_to_csv(files, p_saves,
                                 MonthlyCsv("fmi_weather_observations",
                                            current_month),
                                 BatchTable(monthly_fmi_data))
                    IN  /\ files' = w[1]
                        /\ p_saves' = w[2]
                        /\ monthly_fmi_data' = <<>>
               ELSE UNCHANGED <<files, p_saves, monthly_fmi_data>>
            /\ current_month' = MonthOf(current_date)
       ELSE UNCHANGED <<files, p_saves, monthly_fmi_data, current_month>>
    /\ p_fetched' = p_fetched \cup {"weather"}
    /\ p_pc' = "fetching"
    /\ date' = current_date
    /\ chunk_hours' = (IF script = "main" THEN 1 ELSE 2)
    /\ max_retries' = 3
    /\ f_pc' = "chunk"
    /\ current_time' = 0
    /\ chunk_end' = 0
    /\ attempt' = 1
    /\ broke' = FALSE
    /\ all_data' = <<>>
    /\ station_metadata' = EmptyMeta
    /\ f_windows' = <<>>
    /\ f_queries' = 0
    /\ f_settled' = FALSE
    /\ f_ok_chunks' = <<>>
    /\ f_skipped' = NotSkipped
    /\ f_result' = NoTables
    /\ UNCHANGED <<f_late_query, service>>
    /\ UNCHANGED <<script, start_date, end_date, railway_metadata, p_daily,
                   trains_available, current_date, all_fmi_data,
                   all_ems_metadata, ems_metadata_combined, p_log, p_exc>>
    /\ UNCHANGED <<core_vars, c_vars>>

\* main.py 177-188, page 8 178-207, page 9 208-215: fetch_fmi_data has
\* returned; the day's table is kept, the registry is kept if none is held,
\* page 8 saves the batch when the month has changed or the range is over
PageFmiDone ==
    /\ p_pc = "fetching"
    /\ f_pc = "returned"
    /\ LET daily_fmi_data == f_result.data
           daily_ems_metadata == f_result.metadata
           batch == IF daily_fmi_data # <<>>
                    THEN Append(monthly_fmi_data, daily_fmi_data)
                    ELSE monthly_fmi_data
       IN  /\ IF daily_fmi_data # <<>>
              THEN /\ all_ems_metadata' =
                         (IF all_ems_metadata = <<>>
                          THEN <<daily_ems_metadata>> ELSE all_ems_metadata)
                   /\ UNCHANGED p_log
              ELSE /\ p_log' = p_log \cup {"No weather data available"}
                   /\ UNCHANGED all_ems_metadata
           /\ all_fmi_data' =
                 (IF script = "main" /\ daily_fmi_data # <<>>
                  THEN Append(all_fmi_data, daily_fmi_data) ELSE all_fmi_data)
           /\ IF script = "page8"
              THEN IF MonthOf(current_date) # current_month
                      \/ current_date = end_date
                   THEN /\ IF batch # <<>>
                           THEN LET w == append_dataframe_to_csv(files,
                                             p_saves, CSV_FMI,
                                             BatchTable(batch))
                                IN  /\ files' = w[1]
                                    /\ p_saves' = w[2]
                                    /\ monthly_fmi_data' = <<>>
                           ELSE /\ monthly_fmi_data' = batch
                                /\ UNCHANGED <<files, p_saves>>
                        /\ current_month' = MonthOf(current_date)
                   ELSE /\ monthly_fmi_data' = batch
                        /\ UNCHANGED <<files, p_saves, current_month>>
              ELSE /\ monthly_fmi_data' =
                         (IF script = "page9" THEN batch ELSE monthly_fmi_data)
                   /\ UNCHANGED <<files, p_saves, current_month>>
    /\ p_daily' = (IF f_result.data # <<>> THEN Append(p_daily, f_result.data)
                   ELSE p_daily)
    /\ current_date' = current_date + 1
    /\ p_pc' = "fmi"
    /\ FetchGone
    /\ UNCHANGED <<script, start_date, end_date, railway_metadata,
                   trains_available, ems_metadata_combined, p_fetched, p_exc>>
    /\ UNCHANGED <<core_vars, c_vars>>

\* pd.concat of the list holding the registry, drop_duplicates (page 9
\* 230-231): the rows are a set
CombinedMetadata(list) == [defined |-> TRUE, rows |-> list[1]]

\* main.py 191-222, page 8 210-231, page 9 217-235: the weather loop is
\* over.  What is left of the weather data is saved, then the registry, if
\* one is held; if none is, the pages show a message and go on.
PageFmiEnd ==
    /\ p_pc = "fmi"
    /\ current_date > end_date
    /\ LET left == IF script = "main" THEN all_fmi_data ELSE monthly_fmi_data
           w1 == IF left = <<>> THEN <<files, p_saves>>
                 ELSE IF script = "main"
                 THEN save_dataframe_to_csv(files, p_saves, CSV_FMI,
                          transform_fmi_data(concat(all_fmi_data)))
                 ELSE IF script = "page8"
                 THEN append_dataframe_to_csv(files, p_saves, CSV_FMI,
                          BatchTable(monthly_fmi_data))
                 ELSE save_dataframe_to_csv(files, p_saves,
                          MonthlyCsv("fmi_weather_observations", current_month),
                          BatchTable(monthly_fmi_data))
           held == IF script = "main"
                   THEN all_fmi_data # <<>> /\ all_ems_metadata # <<>>
                   ELSE all_ems_metadata # <<>>
           w2 == IF held
                 THEN save_dataframe_to_csv(w1[1], w1[2], CSV_FMI_EMS,
                          CombinedMetadata(all_ems_metadata).rows)
                 ELSE w1
       IN  /\ files' = w2[1]
           /\ p_saves' = w2[2]
           /\ ems_metadata_combined' =
                 (IF held THEN CombinedMetadata(all_ems_metadata)
                  ELSE ems_metadata_combined)
           /\ p_log' =
                 (IF script = "main"
                  THEN IF all_fmi_data = <<>>
                       THEN p_log \cup {"No FMI weather data available"}
                       ELSE p_log
                  ELSE IF held THEN p_log ELSE p_log \cup {NoEmsMetadata})
    /\ monthly_fmi_data' = (IF script = "main" THEN monthly_fmi_data ELSE <<>>)
    /\ p_pc' = IF script = "main" THEN "done" ELSE "cross"
    /\ UNCHANGED <<script, start_date, end_date, railway_metadata, p_daily,
                   trains_available, current_date, current_month,
                   all_fmi_data, all_ems_metadata, p_fetched, p_exc>>
    /\ UNCHANGED <<core_vars, f_vars, c_vars>>

\* page 9 255-291: for the month numbers k..12, the months that have a train
\* file and a weather file are joined and saved
RECURSIVE SaveCrossMonths(_, _)
SaveCrossMonths(w, k) ==
    IF k > 12 THEN w
    ELSE IF /\ MonthlyCsv("all_trains_data", k) \in DOMAIN w[1]
            /\ MonthlyCsv("fmi_weather_observations", k) \in DOMAIN w[1]
         THEN SaveCrossMonths(
                  save_dataframe_to_csv(w[1], w[2], MonthlyCsv("cross_data", k),
                      [trains |-> w[1][MonthlyCsv("all_trains_data", k)],
                       weather |-> w[1][MonthlyCsv("fmi_weather_observations", k)]]),
                  k + 1)
         ELSE SaveCrossMonths(w, k + 1)

\* page 8 240-258, page 9 245-293: the cross data.  Page 8 reads the weather
\* file first; the call of match_train_with_ems evaluates the name
\* ems_metadata_combined; then the tables are joined and saved.
PageCross ==
    /\ p_pc = "cross"
    /\ IF script = "page8" /\ CSV_FMI \notin DOMAIN files
       THEN /\ p_exc' = "FileNotFoundError"
            /\ p_pc' = "crashed"
            /\ UNCHANGED <<files, p_saves>>
       ELSE IF ~ems_metadata_combined.defined
       THEN /\ p_exc' = "NameError"
            /\ p_pc' = "crashed"
            /\ UNCHANGED <<files, p_saves>>
       ELSE LET w1 == save_dataframe_to_csv(files, p_saves, CSV_CROSS_STATIONS,
                          [stations |-> railway_metadata,
                           registry |-> ems_metadata_combined.rows])
                w2 == IF script = "page8"
                      THEN save_dataframe_to_csv(w1[1], w1[2], CSV_CROSS_DATA,
                               [trains |-> ScenarioTrains,
                                weather |-> files[CSV_FMI]])
                      ELSE SaveCrossMonths(w1, 1)
            IN  /\ files' = w2[1]
                /\ p_saves' = w2[2]
                /\ p_pc' = "done"
                /\ UNCHANGED p_exc
    /\ UNCHANGED <<script, start_date, end_date, railway_metadata, p_daily,
                   trains_available, current_date, current_month,
                   monthly_fmi_data, all_fmi_data, all_ems_metadata,
                   ems_metadata_combined, p_fetched, p_log>>
    /\ UNCHANGED <<core_vars, f_vars, c_vars>>

NextPage ==
    \/ PageStations
    \/ PageTrains
    \/ PageFmiDay
    \/ FetchChunk
    \/ FetchAttempt
    \/ FetchAdvance
    \/ FetchReturn
    \/ PageFmiDone
    \/ PageFmiEnd
    \/ PageCross

\* fetch_fmi_data is not running
FetchIdle ==
    /\ chunk_hours = 1
    /\ max_retries = 3
    /\ f_pc = "idle"
    /\ current_time = 0
    /\ chunk_end = 0
    /\ attempt = 1
    /\ broke = FALSE
    /\ all_data = <<>>
    /\ station_metadata = EmptyMeta
    /\ f_windows = <<>>
    /\ f_queries = 0
    /\ f_settled = FALSE
    /\ f_late_query = FALSE
    /\ f_ok_chunks = <<>>
    /\ f_skipped = NotSkipped
    /\ f_result = NoTables
    /\ date = 0

\* no script is running
PageIdle ==
    /\ script = NoneVal
    /\ start_date = 0
    /\ end_date = 0
    /\ railway_metadata = <<>>
    /\ trains_available = FALSE
    /\ p_pc = "idle"
    /\ current_date = 0
    /\ current_month = 0
    /\ monthly_fmi_data = <<>>
    /\ all_fmi_data = <<>>
    /\ all_ems_metadata = <<>>
    /\ ems_metadata_combined = Undefined
    /\ files = <<>>
    /\ p_saves = <<>>
    /\ p_daily = <<>>
    /\ p_fetched = {}
    /\ p_log = {}
    /\ p_exc = NoneVal

\* clean_fmi_data is not called
CleanIdle ==
    /\ clean_in = <<>>
    /\ clean_out = <<>>

\* the other functions of the pipeline are not running
ExtIdle ==
    /\ FetchIdle
    /\ service = AnyService
    /\ PageIdle
    /\ CleanIdle

\* any registries, the scenario's observations and runs; the matcher is
\* called twice
InitMatch ==
    /\ train_stations \in SeqsUpTo(TrainRows, MaxTrainStations)
    /\ ems_stations \in SeqsUpTo(EmsRows, MaxEms)
    /\ fmi_data = ScenarioFmi
    /\ trains_data = ScenarioTrains
    /\ m_calls_left = 1
    /\ j_calls_left = 0
    /\ InitCommon
    /\ ExtIdle

\* the scenario's registries, any observation table, any single stop
InitJoin ==
    /\ train_stations = ScenarioTrainStations
    /\ ems_stations = ScenarioEms
    /\ fmi_data \in ObsTables
    /\ trains_data \in {<<Run(1, <<st>>)>> : st \in Stops}
    /\ m_calls_left = 0
    /\ j_calls_left = 0
    /\ InitCommon
    /\ ExtIdle

(***************************************************************************)
(* A batch: two runs that share up to MaxBatchStops stops, joined twice.   *)
(***************************************************************************)
MaxBatchStops == 3

\* a good stop at each station, a station the registry does not know, a
\* stop without code, with an empty code, without time, with a time of
\* another format
BatchStops ==
    {Stop("HKI", "2024-01-01T10:30:00.000Z"),
     Stop("OL", "2024-01-01T23:59:00.000Z"),
     Stop("XX", "2024-01-01T10:30:00.000Z"),
     Stop(NoneVal, "2024-01-01T10:30:00.000Z"),
     Stop("", "2024-01-01T10:30:00.000Z"),
     Stop("HKI", NoneVal),
     Stop("HKI", BadTime)}

\* the stops s, cut into a first run of c stops and a second run of the rest
BatchRuns(s, c) ==
    <<Run(1, SubSeq(s, 1, c)), Run(2, SubSeq(s, c + 1, Len(s)))>>

BatchTrains ==
    {BatchRuns(x[1], x[2]) :
        x \in {y \in SeqsUpTo(BatchStops, MaxBatchStops) \X (0..MaxBatchStops) :
                  y[2] <= Len(y[1])}}

\* observation tables of a batch: the scenario's; both stations, out of
\* order, with a repeated (station, timestamp) row and an unusable cell
BatchFmi ==
    {ScenarioFmi,
     <<ObsRow("W2", "2024-01-01 12:00:00", 1),
       ObsRow("W1", "2024-01-01 11:00:00", 2),
       ObsRow("W1", "n/a", 3),
       ObsRow("W1", "2024-01-01 10:00:00", 4),
       ObsRow("W1", "2024-01-01 10:00:00", 5)>>}

\* the scenario's registries, a batch of runs; the join is called twice
InitBatch ==
    /\ train_stations = ScenarioTrainStations
    /\ ems_stations = ScenarioEms
    /\ fmi_data \in BatchFmi
    /\ trains_data \in BatchTrains
    /\ m_calls_left = 0
    /\ j_calls_left = 1
    /\ InitCommon
    /\ ExtIdle

\* a batch joined once, after which the caller writes to one mapping
InitAlias ==
    /\ train_stations = ScenarioTrainStations
    /\ ems_stations = ScenarioEms
    /\ fmi_data \in BatchFmi
    /\ trains_data \in BatchTrains
    /\ m_calls_left = 0
    /\ j_calls_left = 0
    /\ InitCommon
    /\ ExtIdle

NextAlias == Next \/ Poke

SpecMatch == InitMatch /\ [][Next]_vars
SpecJoin == InitJoin /\ [][Next]_vars
SpecBatch == InitBatch /\ [][Next]_vars
SpecAlias == InitAlias /\ [][NextAlias]_vars

\* the matcher and the joiner are not running, on the scenario's tables
CoreIdle ==
    /\ train_stations = ScenarioTrainStations
    /\ ems_stations = ScenarioEms
    /\ fmi_data = ScenarioFmi
    /\ trains_data = ScenarioTrains
    /\ m_calls_left = 0
    /\ j_calls_left = 0
    /\ InitCommon

\* fetch_fmi_data is called for a date (lines 29-36)
InitFetch ==
    /\ CoreIdle
    /\ PageIdle
    /\ CleanIdle
    /\ chunk_hours \in 1..MaxChunkHours
    /\ max_retries \in 0..MaxRetries
    /\ f_pc = "chunk"
    /\ current_time = 0
    /\ chunk_end = 0
    /\ attempt = 1
    /\ broke = FALSE
    /\ all_data = <<>>
    /\ station_metadata = EmptyMeta
    /\ f_windows = <<>>
    /\ f_queries = 0
    /\ f_settled = FALSE
    /\ f_late_query = FALSE
    /\ f_ok_chunks = <<>>
    /\ f_skipped = NotSkipped
    /\ f_result = NoTables
    /\ date = 0
    /\ service = AnyService

SpecFetch == InitFetch /\ [][NextFetch]_vars

\* date ranges: one day; two days of a month; the last day of a month and
\* the first of the next; 2024-01-31 to 2025-01-01
Ranges == {<<14, 14>>, <<14, 15>>, <<30, 31>>, <<30, 366>>}

\* the weather table of the output folder left by an earlier run
StaleFmi == CSV_FMI :> <<[timestamp |-> 0 - 1, station_name |-> "W1"]>>

\* a service with observations on some of the first two days and the last
\* day of the range, for the chunk at 00:00 or also the one at 04:00, up or
\* down for the chunk at 02:00
Plans(first, last) ==
    [kind : {"plan"},
     wet : SUBSET ({first, first + 1, last} \cap first..last),
     hours : {{0}, {0, 4}},
     down : {{}, {2}}]

\* the button is pressed with start_date <= end_date (main.py 67-74).  The
\* long range is run by page 9 only, with data on its first or on its first
\* and last day; a service that answers in any way is run by the pages only,
\* for one day.
InitPage ==
    /\ CoreIdle
    /\ CleanIdle
    /\ FetchIdle
    /\ script \in {"main", "page8", "page9"}
    /\ \E range \in Ranges : start_date = range[1] /\ end_date = range[2]
    /\ railway_metadata \in {<<>>, ScenarioTrainStations}
    /\ trains_available \in BOOLEAN
    /\ files \in {<<>>, StaleFmi}
    /\ service \in Plans(start_date, end_date) \cup {AnyService}
    /\ service.kind = "any" =>
          /\ start_date = end_date
          /\ script # "main"
          /\ railway_metadata # <<>>
          /\ trains_available
    /\ end_date - start_date > 31 =>
          /\ script = "page9"
          /\ railway_metadata # <<>>
          /\ trains_available
          /\ files = <<>>
          /\ service.kind = "plan"
          /\ start_date \in service.wet
          /\ service.hours = {0}
          /\ service.down = {}
    /\ p_pc = "stations"
    /\ current_date = 0
    /\ current_month = 0
    /\ monthly_fmi_data = <<>>
    /\ all_fmi_data = <<>>
    /\ all_ems_metadata = <<>>
    /\ ems_metadata_combined = Undefined
    /\ p_saves = <<>>
    /\ p_daily = <<>>
    /\ p_fetched = {}
    /\ p_log = {}
    /\ p_exc = NoneVal

SpecPage == InitPage /\ [][NextPage]_vars

\* clean_fmi_data is handed any table of up to MaxCleanRows rows
InitClean ==
    /\ CoreIdle
    /\ FetchIdle
    /\ PageIdle
    /\ service = AnyService
    /\ clean_in \in SeqsUpTo(CleanRows, MaxCleanRows)
    /\ clean_out = <<>>

SpecClean == InitClean /\ [][NextClean]_vars

(***************************************************************************)
(* Properties of match_train_with_ems (checked under SpecMatch).           *)
(***************************************************************************)
MatchReturned == m_pc = "returned"

TrainPos(i) ==
    [latitude |-> train_stations[i].latitude,
     longitude |-> train_stations[i].longitude]

EmsPos(k) ==
    [latitude |-> ems_stations[k].latitude,
     longitude |-> ems_stations[k].longitude]

\* distance from railway station i to weather station k
Dist(i, k) == haversine(TrainPos(i), EmsPos(k))

\* weather station k is at minimal distance from railway station i
IsNearest(i, k) == \A j \in DOMAIN ems_stations : Dist(i, k) <= Dist(i, j)

\* C1: with a non-empty weather registry, the station named in
\* closest_ems_station of every returned row is a registry station from
\* which no other registry station is strictly nearer to the railway station.
C1_MinimumDistance ==
    (MatchReturned /\ Len(ems_stations) > 0) =>
        \A i \in DOMAIN matched_stations_df :
            \E k \in DOMAIN ems_stations :
                /\ ems_stations[k].station_name =
                       matched_stations_df[i].closest_ems_station
                /\ EmsPos(k) = [latitude |-> matched_stations_df[i].ems_latitude,
                                longitude |-> matched_stations_df[i].ems_longitude]
                /\ IsNearest(i, k)

\* the scenario of the specification: R1 (60.1, 24.1) between W1 (60.0, 24.0)
\* and W2 (61.0, 25.0) is matched to W1, the second station being farther
C1_Witness ==
    /\ MatchReturned
    /\ Len(matched_stations_df) > 0
    /\ ems_stations = <<EmsRow("W2", PosB), EmsRow("W1", PosA)>>
    /\ TrainPos(1) = PosR
    /\ matched_stations_df[1].closest_ems_station = "W1"
    /\ matched_stations_df[1].distance_km = 12428

\* C5: for non-empty registries the call returns (it does not raise) one row
\* per railway station, with the station codes in the input order, each row
\* naming one station of the weather registry.
C5_OneRowPerStation ==
    (Len(train_stations) > 0 /\ Len(ems_stations) > 0) =>
        /\ m_pc # "raised"
        /\ MatchReturned =>
              /\ Len(matched_stations_df) = Len(train_stations)
              /\ \A i \in DOMAIN train_stations :
                    /\ matched_stations_df[i].train_station_short_code =
                           train_stations[i].stationShortCode
                    /\ matched_stations_df[i].train_lat = train_stations[i].latitude
                    /\ matched_stations_df[i].train_long = train_stations[i].longitude
                    /\ \E k \in DOMAIN ems_stations :
                          ems_stations[k].station_name =
                              matched_stations_df[i].closest_ems_station

C5_Witness ==
    /\ MatchReturned
    /\ Len(ems_stations) > 0
    /\ Len(train_stations) = 2
    /\ train_stations[1].stationShortCode = "OL"
    /\ train_stations[2].stationShortCode = "HKI"
    /\ matched_stations_df[1].train_station_short_code = "OL"
    /\ matched_stations_df[2].train_station_short_code = "HKI"

\* C6: in every returned row that names a weather station, ems_latitude and
\* ems_longitude are the position of a registry station of that name, and
\* distance_km is the (non-negative) haversine distance between the row's
\* railway position and that position.
C6_RowConsistent ==
    MatchReturned =>
        \A i \in DOMAIN matched_stations_df :
            LET row == matched_stations_df[i]
            IN  IF row.closest_ems_station = NoneVal
                THEN /\ row.ems_latitude = NoneVal
                     /\ row.ems_longitude = NoneVal
                     /\ row.distance_km = Inf
                     /\ Len(ems_stations) = 0
                ELSE /\ \E k \in DOMAIN ems_stations :
                           /\ ems_stations[k].station_name = row.closest_ems_station
                           /\ ems_stations[k].latitude = row.ems_latitude
                           /\ ems_stations[k].longitude = row.ems_longitude
                     /\ row.distance_km >= 0
                     /\ row.distance_km =
                           haversine([latitude |-> row.train_lat,
                                      longitude |-> row.train_long],
                                     [latitude |-> row.ems_latitude,
                                      longitude |-> row.ems_longitude])

\* the nearest station is visited first and a farther one after it
C6_Witness ==
    /\ MatchReturned
    /\ Len(matched_stations_df) > 0
    /\ ems_stations = <<EmsRow("W1", PosA), EmsRow("W2", PosB)>>
    /\ TrainPos(1) = PosR
    /\ matched_stations_df[1].closest_ems_station = "W1"
    /\ matched_stations_df[1].ems_latitude = "60.0"
    /\ matched_stations_df[1].distance_km = 12428

\* the first registry index at minimal distance from railway station i
FirstNearest(i) ==
    CHOOSE k \in DOMAIN ems_stations :
        /\ IsNearest(i, k)
        /\ \A j \in DOMAIN ems_stations : IsNearest(i, j) => k <= j

\* C7: when several weather stations are at the same minimal distance, the
\* row names the one that comes first in the registry's order.
C7_FirstMinimumKept ==
    (MatchReturned /\ Len(ems_stations) > 0) =>
        \A i \in DOMAIN matched_stations_df :
            /\ matched_stations_df[i].closest_ems_station =
                   ems_stations[FirstNearest(i)].station_name
            /\ matched_stations_df[i].ems_latitude =
                   ems_stations[FirstNearest(i)].latitude
            /\ matched_stations_df[i].ems_longitude =
                   ems_stations[FirstNearest(i)].longitude

\* two stations of different names on the same spot, both nearest
C7_Witness ==
    /\ MatchReturned
    /\ Len(matched_stations_df) > 0
    /\ ems_stations = <<EmsRow("W2", PosA), EmsRow("W1", PosA)>>
    /\ TrainPos(1) = PosR
    /\ matched_stations_df[1].closest_ems_station = "W2"

\* C8 (as claimed): with an empty railway registry or an empty weather
\* registry the call fails, it never returns a match table.
C8_EmptyInputFails ==
    (Len(train_stations) = 0 \/ Len(ems_stations) = 0) => ~MatchReturned

(***************************************************************************)
(* Properties of merge_train_weather_data (checked under SpecJoin).        *)
(***************************************************************************)
StopPositions ==
    {<<r, s>> \in (0..(Len(trains_data) - 1)) \X (0..8) :
        s < Len(trains_data[r + 1].timeTableRows)}

StopAt(p) == trains_data[p[1] + 1].timeTableRows[p[2] + 1]

\* the loop has gone past stop p
Done(p) ==
    /\ j_pc \in {"loop", "returned", "raised"}
    /\ \/ p[1] < j_run
       \/ p[1] = j_run /\ p[2] < j_stop

\* the join raised while it was at stop p
RaisedAt(p) == j_pc = "raised" /\ p = <<j_run, j_stop>>

\* the stop has a station code and a scheduled time of the accepted format
WellFormed(stop) ==
    Truthy(stop.stationShortCode) /\ strptime_ok(stop.scheduledTime)

InTable(code) ==
    \E i \in DOMAIN matched_stations_df :
        matched_stations_df[i].train_station_short_code = code

\* the weather station the table gives for a code (first matching row)
MatchedEms(code) ==
    matched_stations_df[
        CHOOSE i \in DOMAIN matched_stations_df :
            /\ matched_stations_df[i].train_station_short_code = code
            /\ \A j \in DOMAIN matched_stations_df :
                  matched_stations_df[j].train_station_short_code = code => i <= j
    ].closest_ems_station

\* indices of the observations of a station whose timestamp is valid
ValidObs(station) ==
    {i \in DOMAIN fmi_data :
        /\ fmi_data[i].station_name = station
        /\ to_datetime(fmi_data[i].timestamp) # NaT}

TimeOf(i) == to_datetime(fmi_data[i].timestamp).v

ValidTimes(station) == {TimeOf(i) : i \in ValidObs(station)}

\* stop p is matched to a station with at least one usable observation
Joinable(p) ==
    /\ WellFormed(StopAt(p))
    /\ InTable(StopAt(p).stationShortCode)
    /\ ValidObs(MatchedEms(StopAt(p).stationShortCode)) # {}

SchedOf(p) == strptime(StopAt(p).scheduledTime)

\* the observation (index into fmi_data) whose measurements stop p carries
Attached(p, i) ==
    /\ p \in DOMAIN closest_rows
    /\ closest_rows[p] = [fmi_data[i] EXCEPT !.timestamp = to_datetime(@)]
    /\ StopAt(p).weather_observations # KeyAbsent
    /\ StopAt(p).weather_observations # EmptyMapping
    /\ StopAt(p).weather_observations.t2m = fmi_data[i].t2m

\* C2: a stop whose code is in the match table and whose matched station has
\* an observation with a valid timestamp is joined (the join does not raise
\* on it) to an observation of that station whose timestamp minimises the
\* absolute difference to the scheduled time.
C2_NearestInTime ==
    \A p \in StopPositions :
        Joinable(p) =>
            /\ ~RaisedAt(p)
            /\ Done(p) =>
                  \E i \in ValidObs(MatchedEms(StopAt(p).stationShortCode)) :
                      /\ Attached(p, i)
                      /\ \A j \in ValidObs(MatchedEms(StopAt(p).stationShortCode)) :
                            Abs(TimeOf(i) - SchedOf(p)) <= Abs(TimeOf(j) - SchedOf(p))

\* an unsorted table, the later of two observations is the nearer one
C2_Witness ==
    \E p \in StopPositions :
        /\ Joinable(p) /\ Done(p) /\ j_pc = "returned"
        /\ Len(fmi_data) = 3
        /\ fmi_data[1].station_name = "W1" /\ TimeOf(1) = 660
        /\ fmi_data[2].station_name = "W2" /\ TimeOf(2) = 600
        /\ fmi_data[3].station_name = "W1" /\ TimeOf(3) = 600
        /\ MatchedEms(StopAt(p).stationShortCode) = "W1"
        /\ SchedOf(p) = 631
        /\ Attached(p, 1)

\* the scheduled time of stop p is exactly halfway between two neighbouring
\* observations of its station
Equidistant(p) ==
    LET vt == ValidTimes(MatchedEms(StopAt(p).stationShortCode))
    IN  \E d \in 1..1440 :
            /\ SchedOf(p) - d \in vt
            /\ SchedOf(p) + d \in vt
            /\ \A t \in vt : Abs(t - SchedOf(p)) >= d

\* C3: when the observation before and the observation after the scheduled
\* time are equidistant the earlier one is taken; with observations at 10:00,
\* 11:00 and 12:00 a stop at 10:29 or 10:30 gets 10:00, a stop at 10:31 11:00.
C3_TiePrefersEarlier ==
    \A p \in StopPositions :
        (Joinable(p) /\ Done(p)) =>
            LET vt == ValidTimes(MatchedEms(StopAt(p).stationShortCode))
                taken == closest_rows[p].timestamp.v
            IN  /\ p \in DOMAIN closest_rows
                /\ closest_rows[p] # NoRow
                /\ Equidistant(p) => taken < SchedOf(p)
                /\ (vt = {600, 660, 720} /\ SchedOf(p) \in {629, 630}) => taken = 600
                /\ (vt = {600, 660, 720} /\ SchedOf(p) = 631) => taken = 660

C3_Witness ==
    \E p \in StopPositions :
        /\ Joinable(p) /\ Done(p) /\ j_pc = "returned"
        /\ ValidTimes(MatchedEms(StopAt(p).stationShortCode)) = {600, 660, 720}
        /\ SchedOf(p) = 630
        /\ Equidistant(p)
        /\ closest_rows[p].timestamp.v = 600

Smallest(S) == CHOOSE x \in S : \A y \in S : x <= y
Largest(S) == CHOOSE x \in S : \A y \in S : x >= y

\* C4: a scheduled time before the first (after the last) observation of the
\* matched station takes the first (the last) observation, and the join does
\* not index outside the station's sequence.
C4_ClampAtBoundaries ==
    \A p \in StopPositions :
        Joinable(p) =>
            LET vt == ValidTimes(MatchedEms(StopAt(p).stationShortCode))
            IN  /\ ~(RaisedAt(p) /\ exc = "IndexError")
                /\ Done(p) =>
                      /\ p \in DOMAIN closest_rows
                      /\ closest_rows[p] # NoRow
                      /\ (\A t \in vt : SchedOf(p) < t) =>
                            closest_rows[p].timestamp.v = Smallest(vt)
                      /\ (\A t \in vt : SchedOf(p) > t) =>
                            closest_rows[p].timestamp.v = Largest(vt)

\* a stop at 23:59, after the last of three observations
C4_Witness ==
    \E p \in StopPositions :
        /\ Joinable(p) /\ Done(p) /\ j_pc = "returned"
        /\ ValidTimes(MatchedEms(StopAt(p).stationShortCode)) = {600, 660, 720}
        /\ SchedOf(p) = 1439
        /\ closest_rows[p].timestamp.v = 720

\* something was printed about x
Logged(x) == \E k \in DOMAIN log : log[k].about = x

\* C9 (as claimed): a stop whose station code is not in the match table ends
\* with an empty weather_observations mapping and a recorded diagnostic.
C9_UnmatchedStopGetsEmptyMapping ==
    \A p \in StopPositions :
        (WellFormed(StopAt(p)) /\ ~InTable(StopAt(p).stationShortCode)
           /\ Done(p)) =>
            /\ StopAt(p).weather_observations = EmptyMapping
            /\ Logged(StopAt(p).stationShortCode)

\* the matched station of stop p has no row in the observation table
NoObservations(p) ==
    /\ WellFormed(StopAt(p))
    /\ InTable(StopAt(p).stationShortCode)
    /\ MatchedEms(StopAt(p).stationShortCode) \notin StationsOf(fmi_data)

\* C10: a stop (with a well-formed scheduled time) matched to a station that
\* has no observation gets an empty weather_observations mapping, a
\* diagnostic naming the station is printed, and the join does not raise on it.
C10_NoObservationsDegrades ==
    \A p \in StopPositions :
        NoObservations(p) =>
            /\ ~RaisedAt(p)
            /\ Done(p) =>
                  /\ StopAt(p).weather_observations = EmptyMapping
                  /\ Logged(MatchedEms(StopAt(p).stationShortCode))

\* OL is matched to W2, the table holds observations of W1 only
C10_Witness ==
    \E p \in StopPositions :
        /\ NoObservations(p) /\ Done(p) /\ j_pc = "returned"
        /\ Len(fmi_data) > 0
        /\ StopAt(p).stationShortCode = "OL"
        /\ StopAt(p).weather_observations = EmptyMapping
        /\ Logged("W2")

\* stop p is matched to a station none of whose observations has a usable
\* timestamp (the station may have rows, all of them invalid, or no row)
NoUsableObservation(p) ==
    /\ WellFormed(StopAt(p))
    /\ InTable(StopAt(p).stationShortCode)
    /\ ValidObs(MatchedEms(StopAt(p).stationShortCode)) = {}

\* C11 (as claimed): the join never raises for missing data; a stop matched
\* to a station without any observation of valid timestamp (rows with invalid
\* timestamps included) does not make the join raise and ends with an empty
\* weather_observations mapping.
C11_MissingDataNeverRaises ==
    \A p \in StopPositions :
        NoUsableObservation(p) =>
            /\ ~RaisedAt(p)
            /\ Done(p) => StopAt(p).weather_observations = EmptyMapping

(***************************************************************************)
(* Properties of a batch of stops (checked under SpecBatch).               *)
(***************************************************************************)
\* the scheduled time of stop p is present and not of the accepted format
Malformed(p) ==
    /\ Truthy(StopAt(p).scheduledTime)
    /\ ~strptime_ok(StopAt(p).scheduledTime)

\* a call of the join has ended, by return or by exception
CallEnded ==
    IF j_pc = "idle" THEN Len(j_returns) > 0 ELSE j_pc \in {"returned", "raised"}

\* C12 (as claimed): a stop whose scheduled time does not parse is skipped;
\* the join does not raise on it, and when the call has ended every other
\* stop that can be joined, before and after it, carries its mapping.
C12_MalformedTimeIsolated ==
    \A p \in StopPositions :
        Malformed(p) =>
            /\ ~RaisedAt(p)
            /\ CallEnded =>
                  \A q \in StopPositions :
                      (q # p /\ Joinable(q)) =>
                          StopAt(q).weather_observations # KeyAbsent

\* runs a and b have the same shape: as many runs, as many stops in each
SameShape(a, b) ==
    /\ Len(a) = Len(b)
    /\ \A r \in DOMAIN a :
          r \in DOMAIN b => Len(a[r].timeTableRows) = Len(b[r].timeTableRows)

\* C13 (as claimed): what the join returns has the shape of its input and
\* every stop of every run carries a weather_observations field, stops
\* without station code or scheduled time and stops of unmatched stations
\* included.
C13_EveryStopCarriesField ==
    \A k \in DOMAIN j_returns :
        /\ SameShape(j_returns[k], trains_data_in)
        /\ \A r \in DOMAIN j_returns[k] :
              \A t \in DOMAIN j_returns[k][r].timeTableRows :
                  j_returns[k][r].timeTableRows[t].weather_observations # KeyAbsent

\* a stop as it was delivered: without what the join wrote on it
Delivered(stop) == [stop EXCEPT !.weather_observations = KeyAbsent]

\* runs a are the runs b in the same order, each with the stops of b in the
\* same order
SameOrder(a, b) ==
    /\ SameShape(a, b)
    /\ \A r \in DOMAIN a :
          /\ a[r].trainNumber = b[r].trainNumber
          /\ a[r].departureDate = b[r].departureDate
          /\ \A t \in DOMAIN a[r].timeTableRows :
                Delivered(a[r].timeTableRows[t]) = b[r].timeTableRows[t]

\* C14: the caller's runs, at every step of the join and as each call returns
\* them, are the input runs in the input order with the input stops in the
\* input order; no run or stop is added, removed or moved.
C14_OrderPreserved ==
    /\ SameOrder(trains_data, trains_data_in)
    /\ \A k \in DOMAIN j_returns : SameOrder(j_returns[k], trains_data_in)

\* a returned batch whose first run stops at OL (23:59) before HKI (10:30),
\* both joined, and whose second run has one joined stop
C14_Witness ==
    /\ Len(j_returns) > 0
    /\ Len(j_returns[1]) = 2
    /\ Len(j_returns[1][1].timeTableRows) = 2
    /\ j_returns[1][1].timeTableRows[1].stationShortCode = "OL"
    /\ j_returns[1][1].timeTableRows[1].weather_observations # KeyAbsent
    /\ j_returns[1][1].timeTableRows[2].stationShortCode = "HKI"
    /\ j_returns[1][1].timeTableRows[2].weather_observations # KeyAbsent
    /\ Len(j_returns[1][2].timeTableRows) = 1
    /\ j_returns[1][2].timeTableRows[1].weather_observations # KeyAbsent

\* C15: once a call of the join has returned, a second call on the returned
\* runs, the caller's observation table and the same match table does not
\* raise, never holds runs that differ from what the first call returned, and
\* returns the same runs.
C15_Idempotent ==
    Len(j_returns) > 0 =>
        /\ j_pc # "raised"
        /\ trains_data = j_returns[1]
        /\ \A k \in DOMAIN j_returns : j_returns[k] = j_returns[1]

\* both calls have returned; the batch holds a joined stop, an unmatched one
\* and one whose station has two observations of the same timestamp nearest
C15_Witness ==
    /\ Len(j_returns) = 2
    /\ j_pc = "returned"
    /\ Len(fmi_data) = 5
    /\ \E p \in StopPositions :
          /\ StopAt(p).stationShortCode = "HKI"
          /\ StopAt(p).weather_observations # KeyAbsent
          /\ StopAt(p).weather_observations # EmptyMapping
          /\ StopAt(p).weather_observations.t2m \in {4, 5}
    /\ \E p \in StopPositions : StopAt(p).stationShortCode = "XX"

(***************************************************************************)
(* The attached mapping (checked under SpecJoin).                          *)
(***************************************************************************)
\* the measurement columns of an observation row
MeasurementColumns(row) == DOMAIN row \ {"station_name", "timestamp"}

\* stop p carries a non-empty mapping
HasMapping(p) ==
    /\ StopAt(p).weather_observations # KeyAbsent
    /\ StopAt(p).weather_observations # EmptyMapping

\* mapping w is built from observation row i for the station ems
BuiltFrom(w, i, ems) ==
    /\ fmi_data[i].station_name = ems
    /\ Len(w.keys) > 0
    /\ w.keys[1] = "closest_ems"
    /\ w.closest_ems = ems
    /\ {w.keys[k] : k \in DOMAIN w.keys} =
           {"closest_ems"} \cup MeasurementColumns(fmi_data[i])
    /\ DOMAIN w = {"keys", "closest_ems"} \cup MeasurementColumns(fmi_data[i])
    /\ \A c \in MeasurementColumns(fmi_data[i]) : w[c] = fmi_data[i][c]

JoinCalled == j_pc # "idle" \/ Len(j_returns) > 0

\* the match table is the one match_train_with_ems returned
MatchTableKept ==
    m_pc = "returned" => matched_stations_df = m_returns[Len(m_returns)]

\* C17 (as claimed): the join writes nothing but weather_observations; the
\* other fields of the runs and stops, the match table and the caller's
\* observation table stay as they were handed over.
C17_OnlyWeatherWritten ==
    /\ SameOrder(trains_data, trains_data_in)
    /\ MatchTableKept
    /\ fmi_data = fmi_data_in

\* C17 (amended): besides weather_observations the join writes the timestamp
\* column of the caller's observation table: from the call on every cell
\* holds the datetime parsed from the cell handed over, NaT if it does not
\* parse.  The rows of the table, their order and their other columns, the
\* other fields of the runs and stops and the match table stay as they were.
C17_WeatherAndTimestampsWritten ==
    /\ SameOrder(trains_data, trains_data_in)
    /\ MatchTableKept
    /\ Len(fmi_data) = Len(fmi_data_in)
    /\ \A i \in DOMAIN fmi_data :
          i \in DOMAIN fmi_data_in =>
              /\ DOMAIN fmi_data[i] = DOMAIN fmi_data_in[i]
              /\ \A c \in DOMAIN fmi_data[i] \ {"timestamp"} :
                    fmi_data[i][c] = fmi_data_in[i][c]
              /\ fmi_data[i].timestamp =
                    IF JoinCalled THEN to_datetime(fmi_data_in[i].timestamp)
                    ELSE fmi_data_in[i].timestamp

\* the join has returned; the table handed over held text timestamps, one of
\* them unusable, and now holds a datetime and NaT in their places
C17_Witness ==
    /\ j_pc = "returned"
    /\ Len(fmi_data) = 5
    /\ fmi_data_in[2].timestamp = RawCell("2024-01-01 11:00:00")
    /\ fmi_data[2].timestamp = DtCell(660)
    /\ fmi_data_in[3].timestamp = RawCell("n/a")
    /\ fmi_data[3].timestamp = NaT
    /\ \E p \in StopPositions : HasMapping(p)

\* C18 (as claimed): within one call of the join the timestamp sequence of a
\* station is parsed, filtered and turned into the searched array at most
\* once, however many stops are matched to the station.
C18_IndexBuiltOncePerStation ==
    \A station \in DOMAIN index_builds : index_builds[station] <= 1

(***************************************************************************)
(* The searched array (checked under SpecJoin).                            *)
(***************************************************************************)
\* rows of the table handed over that are of the station and have a
\* timestamp that parses to t
InputRowsAt(station, t) ==
    {i \in DOMAIN fmi_data_in :
        /\ fmi_data_in[i].station_name = station
        /\ to_datetime(fmi_data_in[i].timestamp) = DtCell(t)}

\* the times a cell of the table can parse to
ParsedTimes == {ObsClock[x] : x \in DOMAIN ObsClock}

\* C19 (as claimed): the array find_closest_weather searches for a station
\* is sorted ascending and has no two entries of the same timestamp, whatever
\* the order and the repetitions of the rows handed over.
C19_SortedAndDeduplicated ==
    \A station \in DOMAIN searched :
        \A i, j \in DOMAIN searched[station] :
            i < j => searched[station][i] < searched[station][j]

\* C19 (amended): the array find_closest_weather searches for a station is
\* sorted in non-decreasing order and holds every valid timestamp of the
\* station as often as the table handed over has a row of it: the join
\* orders the timestamps, it does not deduplicate them.
C19_SortedNotDeduplicated ==
    \A station \in DOMAIN searched :
        /\ \A i, j \in DOMAIN searched[station] :
              i < j => searched[station][i] <= searched[station][j]
        /\ \A t \in ParsedTimes \cup
                      {searched[station][k] : k \in DOMAIN searched[station]} :
              Cardinality({k \in DOMAIN searched[station] :
                              searched[station][k] = t})
                  = Cardinality(InputRowsAt(station, t))

\* three rows of W1 handed over as 11:00, 10:00, 11:00 were searched as
\* 10:00, 11:00, 11:00
C19_Witness ==
    /\ j_pc = "returned"
    /\ Len(fmi_data_in) = 3
    /\ \A i \in DOMAIN fmi_data_in : fmi_data_in[i].station_name = "W1"
    /\ fmi_data_in[1].timestamp = RawCell("2024-01-01 11:00:00")
    /\ fmi_data_in[2].timestamp = RawCell("2024-01-01 10:00:00")
    /\ fmi_data_in[3].timestamp = RawCell("2024-01-01 11:00:00")
    /\ "W1" \in DOMAIN searched
    /\ searched["W1"] = <<600, 660, 660>>

(***************************************************************************)
(* match_train_with_ems called twice (checked under SpecMatch).            *)
(***************************************************************************)
\* C20: match_train_with_ems leaves the two registries it is given as they
\* were handed over, with every row and every column, and a second call on
\* the same registries returns a table equal to the first call's.
C20_MatcherPure ==
    /\ train_stations = train_stations_in
    /\ ems_stations = ems_stations_in
    /\ \A k \in DOMAIN m_returns : m_returns[k] = m_returns[1]

\* both calls have returned a table of two rows matched among two stations
C20_Witness ==
    /\ Len(m_returns) = 2
    /\ m_pc = "returned"
    /\ Len(train_stations) = 2
    /\ Len(ems_stations) = 2
    /\ Len(m_returns[2]) = 2
    /\ m_returns[2][1].closest_ems_station # NoneVal
    /\ m_returns[2][1].closest_ems_station # m_returns[2][2].closest_ems_station
    /\ "type" \in DOMAIN train_stations[1]
    /\ "stationName" \in DOMAIN train_stations[1]

(***************************************************************************)
(* Aliasing of the attached mappings (checked under SpecAlias).            *)
(***************************************************************************)
\* the stop at position q as the join returned it
ReturnedStop(q) == j_returns[1][q[1] + 1].timeTableRows[q[2] + 1]

\* C21: when, after the join, the caller writes to the mapping of one stop,
\* the write shows on that stop only: every other stop still carries what the
\* join returned for it, also a stop that took the same observation or that
\* is empty as well, and no row of the per-station lookup frames is written.
C21_NoSharedMapping ==
    poked # NoneVal =>
        /\ StopAt(poked) # ReturnedStop(poked)
        /\ \A q \in StopPositions : q # poked => StopAt(q) = ReturnedStop(q)
        /\ ~lookup_touched
        /\ \A q \in DOMAIN obs_ref : q # poked => obs_ref[q] # obs_ref[poked]

\* the caller wrote to the non-empty mapping of a stop; another stop took
\* the same observation and a third one is empty
C21_Witness ==
    /\ poked # NoneVal
    /\ ReturnedStop(poked).weather_observations # EmptyMapping
    /\ \E q1, q2 \in DOMAIN obs_ref :
          /\ q1 # poked /\ q2 # poked
          /\ ReturnedStop(q1).weather_observations =
                 ReturnedStop(poked).weather_observations
          /\ ReturnedStop(q2).weather_observations = EmptyMapping

(***************************************************************************)
(* Properties of fetch_fmi_data (checked under SpecFetch).                 *)
(***************************************************************************)
\* C22: for every chunk at most max_retries queries are made, and after a
\* query of the chunk returned data or returned nothing no further query is
\* made for it, however the queries before it failed.
C22_AttemptsBounded ==
    /\ f_queries <= max_retries
    /\ ~f_late_query

\* the last of three allowed queries of a chunk was answered after two
\* failures, and the retry loop was left
C22_Witness ==
    /\ f_pc = "retry"
    /\ max_retries = MaxRetries
    /\ f_queries = max_retries
    /\ f_settled
    /\ broke
    /\ ~f_late_query

\* the row at position i of a table made of the frames of the chunks
\* starting at the hours in starts, one frame after the other
RowOfChunks(starts, i) ==
    ChunkFrame(date, starts[(i + 1) \div 2])[((i - 1) % 2) + 1]

\* C23: a chunk whose every query failed is left without an exception and
\* the loop moves to the next chunk; the frames collected from the other
\* chunks are all kept, and the returned table holds the rows of every chunk
\* that returned data, in the order of the chunks.
C23_FailedChunkSkipped ==
    /\ exc = NoneVal
    /\ (f_pc = "retry" /\ ~broke /\ attempt > max_retries) => ENABLED FetchAdvance
    /\ Len(all_data) = Len(f_ok_chunks)
    /\ \A k \in DOMAIN f_ok_chunks :
          /\ all_data[k] = ChunkFrame(date, f_ok_chunks[k])
          /\ k > 1 => f_ok_chunks[k - 1] < f_ok_chunks[k]
    /\ f_pc = "returned" =>
          /\ Len(f_result.data) = 2 * Len(f_ok_chunks)
          /\ \A i \in DOMAIN f_result.data :
                f_result.data[i] = RowOfChunks(f_ok_chunks, i)

\* the function returned the rows of two chunks; between the two a chunk was
\* given up after max_retries failed queries
C23_Witness ==
    /\ f_pc = "returned"
    /\ max_retries >= 2
    /\ f_skipped = 1
    /\ Len(f_ok_chunks) = 2
    /\ Len(f_result.data) = 4
    /\ f_result.data[1].timestamp < f_result.data[3].timestamp

\* C24: the windows queried for a date partition the day: the first starts
\* at 00:00, each starts where the one before ended, none is empty or longer
\* than chunk_hours, none ends after 00:00 of the next day and, once the
\* function has returned, the last one ends exactly there; the chunk loop
\* stands at the start of the window that follows the last one queried,
\* whatever the queries of that window returned.
C24_WindowsPartitionDay ==
    /\ \A k \in DOMAIN f_windows :
          /\ f_windows[k][1] = (IF k = 1 THEN 0 ELSE f_windows[k - 1][2])
          /\ f_windows[k][1] < f_windows[k][2]
          /\ f_windows[k][2] - f_windows[k][1] <= chunk_hours
          /\ f_windows[k][2] <= HoursPerDay
    /\ f_pc = "chunk" =>
          current_time = (IF f_windows = <<>> THEN 0
                          ELSE f_windows[Len(f_windows)][2])
    /\ f_pc = "returned" =>
          /\ f_windows # <<>>
          /\ f_windows[Len(f_windows)][2] = HoursPerDay

\* the day was fetched in windows of five hours: the last one is the four
\* hours up to midnight; one window returned data, one was given up
C24_Witness ==
    /\ f_pc = "returned"
    /\ chunk_hours = 5
    /\ Len(f_windows) = 5
    /\ f_windows[5] = <<20, 24>>
    /\ Len(f_ok_chunks) >= 1
    /\ f_skipped # NotSkipped

\* steps fetch_fmi_data can still take at most: the hours of the day not
\* yet advanced past weigh more than anything the retry loop of one chunk
\* can do, and within a chunk every query counts
StepsLeft ==
    LET weight == max_retries + 2
        hours == IF current_time < HoursPerDay
                 THEN HoursPerDay - current_time ELSE 0
    IN  IF f_pc = "returned" THEN 0
        ELSE IF f_pc = "chunk" THEN hours * weight + 1
        ELSE hours * weight + 1 - attempt - (IF broke THEN 1 ELSE 0)

\* C25: for every chunk_hours >= 1 and every max_retries, whatever the
\* queries return, fetch_fmi_data terminates: until it has returned its two
\* tables it can always take a step, and every step of the retry loop and of
\* the chunk loop brings it closer to the return by a bound that never goes
\* below zero.
C25_Terminates ==
    /\ [](StepsLeft >= 0)
    /\ [](f_pc # "returned" => ENABLED NextFetch)
    /\ [][StepsLeft' < StepsLeft]_vars

\* the function returned although it was called with windows of one hour and
\* the last chunk used up all its queries
C25_Witness ==
    /\ f_pc = "returned"
    /\ chunk_hours = 1
    /\ max_retries = MaxRetries
    /\ attempt > max_retries
    /\ Len(f_windows) = HoursPerDay
    /\ Len(f_result.data) = 2 * Len(f_ok_chunks)
    /\ StepsLeft = 0

(***************************************************************************)
(* Properties of clean_fmi_data (checked under SpecClean).                 *)
(***************************************************************************)
\* the (timestamp, station_name) pairs of a table
PairsOf(df) == {<<df[i].timestamp, df[i].station_name>> : i \in DOMAIN df}

\* the first row of the table with the pair of row r
FirstOfPair(df, r) ==
    df[CHOOSE i \in DOMAIN df :
          /\ df[i].timestamp = r.timestamp
          /\ df[i].station_name = r.station_name
          /\ \A j \in 1..(i - 1) :
                df[j].timestamp # r.timestamp \/ df[j].station_name # r.station_name]

\* C30: in the table clean_fmi_data returns no two rows share their
\* (timestamp, station_name) pair, the row kept for a pair is the first row
\* of the input with that pair, every pair of the input is still there, the
\* rows are in ascending order of station_name and, within a station, of
\* timestamp; cleaning the result again returns the same table.
C30_CleanDedupSorted ==
    clean_out # <<>> =>
        LET out == clean_out[1]
        IN  /\ \A i, j \in DOMAIN out :
                  i < j =>
                      \/ out[i].station_name = "W1" /\ out[j].station_name = "W2"
                      \/ /\ out[i].station_name = out[j].station_name
                         /\ out[i].timestamp < out[j].timestamp
            /\ PairsOf(out) = PairsOf(clean_in)
            /\ \A i \in DOMAIN out : out[i] = FirstOfPair(clean_in, out[i])
            /\ Len(clean_out) = 2 => clean_out[2] = out

\* a table of three rows, out of order, whose first and last row share their
\* pair and differ in the value, was cleaned twice
C30_Witness ==
    /\ Len(clean_out) = 2
    /\ Len(clean_in) = 3
    /\ clean_in[1].station_name = "W2"
    /\ clean_in[2].station_name = "W1"
    /\ clean_in[3].station_name = "W2"
    /\ clean_in[1].timestamp = clean_in[3].timestamp
    /\ clean_in[1].t2m # clean_in[3].t2m
    /\ Len(clean_out[1]) = 2
    /\ clean_out[1][2] = clean_in[1]

(***************************************************************************)
(* Properties of the scripts (checked under SpecPage).                     *)
(***************************************************************************)
\* the registry rows are those of the answer that brought the row r
RegistryOf(rows, r) ==
    /\ rows # {}
    /\ \A m \in rows :
          /\ m.from_day = DayOf(r.timestamp)
          /\ m.from_chunk = r.timestamp % HoursPerDay

\* C26: the weather-station registry is captured once.  Inside
\* fetch_fmi_data the metadata held is that of the first chunk of the day
\* that returned data, also after later chunks returned data, and it is what
\* the function returns; in the scripts the list of registries holds nothing
\* until a day returned data and from then on the registry of the first such
\* day, and this is the registry handed to the matcher.
C26_RegistryCapturedOnce ==
    /\ f_pc \in {"chunk", "retry", "returned"} =>
          station_metadata =
              (IF f_ok_chunks = <<>> THEN EmptyMeta
               ELSE [from_day |-> date, from_chunk |-> f_ok_chunks[1],
                     stations |-> EmsNames])
    /\ f_pc = "returned" =>
          IF f_ok_chunks = <<>> THEN f_result.metadata = {}
          ELSE RegistryOf(f_result.metadata, f_result.data[1])
    /\ Len(all_ems_metadata) <= 1
    /\ (all_ems_metadata = <<>>) = (p_daily = <<>>)
    /\ all_ems_metadata # <<>> => RegistryOf(all_ems_metadata[1], p_daily[1][1])
    /\ ems_metadata_combined.defined =>
          /\ p_daily # <<>>
          /\ RegistryOf(ems_metadata_combined.rows, p_daily[1][1])

\* two days returned data, each for two chunks with a chunk between them
\* given up; the registry handed to the matcher is that of the first chunk
\* of the first day
C26_Witness ==
    /\ p_pc = "done"
    /\ script = "page9"
    /\ Len(p_daily) = 2
    /\ Len(p_daily[1]) = 4
    /\ Len(p_daily[2]) = 4
    /\ service.down = {2}
    /\ ems_metadata_combined.defined
    /\ \A m \in ems_metadata_combined.rows :
          m.from_day = start_date /\ m.from_chunk = 0

\* the weather tables page 9 wrote, in order
WeatherSaves ==
    SelectSeq(p_saves, LAMBDA w : w.name[1] = "fmi_weather_observations")

\* the row r is in the table
HasRow(table, r) == \E i \in DOMAIN table : table[i] = r

\* C27: in page 9, for every range with start <= end, every monthly
\* weather batch that is saved holds rows of one calendar month only, and
\* when the weather loop is over every row of every day that returned
\* observations is in the monthly file of the month of its day.
C27_MonthlyFilesComplete ==
    script = "page9" =>
        /\ \A k \in DOMAIN WeatherSaves :
              \A i, j \in DOMAIN WeatherSaves[k].rows :
                  CalendarMonth(DayOf(WeatherSaves[k].rows[i].timestamp)) =
                      CalendarMonth(DayOf(WeatherSaves[k].rows[j].timestamp))
        /\ p_pc \in {"cross", "done", "crashed"} =>
              \A k \in DOMAIN p_daily :
                  \A i \in DOMAIN p_daily[k] :
                      LET r == p_daily[k][i]
                          name == MonthlyCsv("fmi_weather_observations",
                                             MonthOf(DayOf(r.timestamp)))
                      IN  /\ name \in DOMAIN files
                          /\ HasRow(files[name], r)

\* C28: in the pages, when no day of the range returned weather data and the
\* page has shown 'No EMS station metadata available.', the call of
\* match_train_with_ems is not reached: its argument ems_metadata_combined
\* is never evaluated while nothing was assigned to it, and the cross data
\* is not made.
C28_MatchingNeedsRegistry ==
    NoEmsMetadata \in p_log =>
        /\ p_exc # "NameError"
        /\ p_pc # "done"

\* C29: in main.py and in the pages, once 'No station metadata available.
\* Exiting...' was shown, no trains and no weather are fetched and no file
\* is written.
C29_ExitsOnEmptyStations ==
    NoStationMetadata \in p_log =>
        /\ p_fetched = {}
        /\ p_saves = <<>>

====
